---- MODULE Spec2Model ----
(***************************************************************************)
(* Route_Planner (src/route_planner/app.py): the tour solvers, the file    *)
(* caches around network resolution and the distance matrix, the planning  *)
(* Worker thread and the PlannerUI handlers that start it.                 *)
(*                                                                         *)
(* Five specifications share the variables:                                *)
(*   SolverSpec    a distance matrix is drawn, the solvers are applied     *)
(*   CacheSpec     calls of the two cached operations against the cache    *)
(*   SaveSpec      a result being saved to a cache file while it is read   *)
(*   Spec          the PlannerUI handlers and the Worker threads           *)
(*   FunctionSpec  an input is drawn, one function is applied to it        *)
(* Distances are integers (metres); float("inf") is the sentinel Inf.      *)
(***************************************************************************)
EXTENDS Integers, Sequences, FiniteSets, TLC

VARIABLES
    D,          \* solvers: the distance matrix handed to a solver, D[i][j]
    solved,     \* solvers: what the last solver call returned or raised
    now,        \* cache: time.time(), in ticks
    files,      \* cache: CACHE_DIR, cache key -> [mtime, content, ...]
    lastGraph,  \* cache: the run's call of get_graph_and_nodes
    lastDist,   \* cache: the run's call of distance_matrix
    runs,       \* cache: planning runs started so far
    env,        \* cache: the road network served and the lookup behaviour
    rows,       \* ui: table.rowCount(), the delivery stops entered
    alg,        \* ui: alg.currentIndex(), 0 auto, 1 exact, 2 approximate
    is_planning,\* ui: PlannerUI.is_planning
    enabled,    \* ui: btn_plan, btn_compare and edit_stops_btn are enabled
    tasks,      \* ui: the Worker threads behind worker, hk_worker, ch_worker
    pending,    \* ui: finished signals queued for the GUI thread
    result      \* functions: what the function applied to the drawn input gave

solverVars == <<D, solved>>
cacheVars == <<now, files, lastGraph, lastDist, runs, env>>
uiVars == <<rows, alg, is_planning, enabled, tasks, pending>>
fnVars == <<result>>

\* ------------------------------------------------------------------------
\*  Bounds of the model
\* ------------------------------------------------------------------------
MaxN == 4       \* largest number of matrix rows (depot included)
MaxW == 2       \* largest single distance in a drawn matrix
MaxOff == 3     \* most pairs of a drawn matrix whose distance is not 1
MaxRuns == 2    \* planning runs per behaviour of CacheSpec
MaxRows == 13   \* most rows of the stops table
MaxStreets == 2 \* most parallel streets of a drawn road network
MaxCells == 1   \* most cells of a drawn solver input that differ from the rest
MaxCoords == 3  \* most coordinates of a drawn coordinate list
MaxAssign == 3  \* longest drawn node list, the one past the all-pairs limit aside
MaxBuffers == 3 \* most buffer-fulls the text of a saved result takes
CACHE_TIMEOUT == 1  \* the cache TTL in ticks (one week in the program)

\* the clock stops once an entry can be older than the TTL
MaxTime == CACHE_TIMEOUT + 1

\* float("inf") in held_karp_tsp; larger than every finite tour cost here
Inf == 1000000

\* ------------------------------------------------------------------------
\*  Helpers on sets, sequences and matrices
\* ------------------------------------------------------------------------
Min(S) == CHOOSE x \in S : \A y \in S : x <= y

Range(s) == {s[i] : i \in DOMAIN s}

Size(M) == Cardinality(DOMAIN M)

\* sum(D[tour[i]][tour[i+1]] for i in range(len(tour)-1))
RECURSIVE PathCost(_, _, _)
PathCost(M, tour, i) ==
    IF i >= Len(tour) THEN 0
    ELSE M[tour[i]][tour[i + 1]] + PathCost(M, tour, i + 1)

TourCost(M, tour) == PathCost(M, tour, 1)

Reverse(s) == [i \in 1..Len(s) |-> s[Len(s) + 1 - i]]

\* ------------------------------------------------------------------------
\*  held_karp_tsp
\* ------------------------------------------------------------------------
\* inf + x is inf
AddInf(a, b) == IF a >= Inf THEN Inf ELSE a + b

\* the scan "for k in range(n): if candidate < best" as a fold over k:
\* acc is <<best, best_k>>, best_k = -1 stands for None
RECURSIVE HKdp(_, _, _)
RECURSIVE HKscan(_, _, _, _, _)
HKscan(M, prev, j, k, acc) ==
    IF k >= Size(M) THEN acc
    ELSE IF k \notin prev THEN HKscan(M, prev, j, k + 1, acc)
    ELSE LET candidate == AddInf(HKdp(M, prev, k)[1], M[k][j])
         IN  HKscan(M, prev, j, k + 1,
                    IF candidate < acc[1] THEN <<candidate, k>> ELSE acc)

\* <<dp[(mask, j)], parent[(mask, j)]>>; dp.get(..., inf) for a missing key
HKdp(M, mask, j) ==
    IF j = 0 THEN (IF mask = {0} THEN <<0, -1>> ELSE <<Inf, -1>>)
    ELSE HKscan(M, mask \ {j}, j, 0, <<Inf, -1>>)

\* the endpoint chosen on dp[(full_mask, j)] alone, the leg back to 0 added
\* afterwards
HKbest_ignoresReturnLeg(M) ==
    LET n    == Size(M)
        full == 0..(n - 1)
        cand == {<<HKdp(M, full, j)[1], j>> : j \in 1..(n - 1)}
        c    == CHOOSE c \in cand :
                    \A d \in cand : c[1] < d[1] \/ (c[1] = d[1] /\ c[2] <= d[2])
    IN  <<AddInf(c[1], M[c[2]][0]), c[2]>>

\* min((dp[(full_mask, j)] + D[j][0], j) for j in range(1, n)): tuples
\* compare by distance first, then by j
HKbest(M) ==
    LET n    == Size(M)
        full == 0..(n - 1)
        cand == {<<AddInf(HKdp(M, full, j)[1], M[j][0]), j>> : j \in 1..(n - 1)}
    IN  CHOOSE c \in cand :
            \A d \in cand : c[1] < d[1] \/ (c[1] = d[1] /\ c[2] <= d[2])

\* the walk along the parent pointers, collecting tour_reversed
RECURSIVE HKwalk(_, _, _, _)
HKwalk(M, mask, j, acc) ==
    IF j = 0 THEN Append(acc, 0)
    ELSE HKwalk(M, mask \ {j}, HKdp(M, mask, j)[2], Append(acc, j))

\* min() of an empty sequence raises ValueError when n < 2
held_karp_tsp(M) ==
    IF Size(M) < 2
    THEN [raised |-> "ValueError", tour |-> <<>>, dist |-> 0]
    ELSE LET b == HKbest(M)
         IN  [raised |-> "none",
              tour   |-> Reverse(HKwalk(M, 0..(Size(M) - 1), b[2], <<0>>)),
              dist   |-> b[1]]

\* ------------------------------------------------------------------------
\*  _nearest_neighbor_fallback
\* ------------------------------------------------------------------------
\* min(unvisited, key=lambda x: D[current][x]): the first minimal element
\* in the iteration order of a set of small ints, which is ascending
Nearest(M, current, unvisited) ==
    Min({x \in unvisited :
            \A y \in unvisited : M[current][x] <= M[current][y]})

\* the loop without "tour.append(0)"
RECURSIVE NNloop_openTour(_, _, _, _, _)
NNloop_openTour(M, unvisited, tour, current, total) ==
    IF unvisited = {}
    THEN [raised |-> "none", tour |-> tour, dist |-> total + M[current][0]]
    ELSE LET nearest == Nearest(M, current, unvisited)
         IN  NNloop_openTour(M, unvisited \ {nearest}, Append(tour, nearest),
                             nearest, total + M[current][nearest])

\* the loop without "total_distance += D[current][0]"
RECURSIVE NNloop_dropsReturnLeg(_, _, _, _, _)
NNloop_dropsReturnLeg(M, unvisited, tour, current, total) ==
    IF unvisited = {}
    THEN [raised |-> "none", tour |-> Append(tour, 0), dist |-> total]
    ELSE LET nearest == Nearest(M, current, unvisited)
         IN  NNloop_dropsReturnLeg(M, unvisited \ {nearest},
                                   Append(tour, nearest), nearest,
                                   total + M[current][nearest])

RECURSIVE NNloop(_, _, _, _, _)
NNloop(M, unvisited, tour, current, total) ==
    IF unvisited = {}
    THEN [raised |-> "none",
          tour   |-> Append(tour, 0),
          dist   |-> total + M[current][0]]
    ELSE LET nearest == Nearest(M, current, unvisited)
         IN  NNloop(M, unvisited \ {nearest}, Append(tour, nearest), nearest,
                    total + M[current][nearest])

nearest_neighbor_fallback(M) ==
    IF Size(M) = 0 THEN [raised |-> "none", tour |-> <<>>, dist |-> 0]
    ELSE IF Size(M) = 1 THEN [raised |-> "none", tour |-> <<0, 0>>, dist |-> 0]
    ELSE NNloop(M, 1..(Size(M) - 1), <<0>>, 0, 0)

\* ------------------------------------------------------------------------
\*  christofides_tsp
\* ------------------------------------------------------------------------
Unordered(n) == {e \in (0..(n - 1)) \X (0..(n - 1)) : e[1] < e[2]}

\* nodes reachable from the nodes of `seen` along the edges of E
RECURSIVE Reach(_, _)
Reach(E, seen) ==
    LET more == {v \in UNION {{e[1], e[2]} : e \in E} :
                    \E e \in E : (e[1] \in seen /\ e[2] = v)
                              \/ (e[2] \in seen /\ e[1] = v)}
    IN  IF more \subseteq seen THEN seen ELSE Reach(E, seen \cup more)

SpanningTrees(n) ==
    {T \in SUBSET Unordered(n) :
        /\ Cardinality(T) = n - 1
        /\ Reach(T, {0}) = 0..(n - 1)}

RECURSIVE EdgeWeight(_, _)
EdgeWeight(M, E) ==
    IF E = {} THEN 0
    ELSE LET e == CHOOSE x \in E : TRUE
         IN  M[e[1]][e[2]] + EdgeWeight(M, E \ {e})

\* any spanning tree, not a minimum one
MinimumSpanningTrees_anyTree(M) == SpanningTrees(Size(M))

\* nx.minimum_spanning_tree(G, weight="weight"): a spanning tree of least
\* total weight; which one among equals is the library's choice
MinimumSpanningTrees(M) ==
    LET trees == SpanningTrees(Size(M))
        best  == Min({EdgeWeight(M, T) : T \in trees})
    IN  {T \in trees : EdgeWeight(M, T) = best}

Degree(E, v) == Cardinality({e \in E : e[1] = v \/ e[2] = v})

\* [v for v, d in T.degree() if d % 2 == 1]
OddDegreeNodes(M, T) == {v \in 0..(Size(M) - 1) : Degree(T, v) % 2 = 1}

\* the perfect matchings of the complete graph over the nodes of S
RECURSIVE PerfectMatchings(_)
PerfectMatchings(S) ==
    IF S = {} THEN {{}}
    ELSE LET u == Min(S)
         IN  UNION {{P \cup {<<u, v>>} : P \in PerfectMatchings(S \ {u, v})} :
                        v \in S \ {u}}

\* max_weight_matching(M, maxcardinality=True) on weights 1_000_000 - D[u][v]:
\* among the matchings of largest cardinality (perfect ones, the graph being
\* complete on an even number of nodes) one of largest weight, that is of
\* least total distance
MinWeightMatchings(M, odd) ==
    LET all  == PerfectMatchings(odd)
        best == Min({EdgeWeight(M, P) : P \in all})
    IN  {P \in all : EdgeWeight(M, P) = best}

RECURSIVE SetToSeq(_)
SetToSeq(S) ==
    IF S = {} THEN <<>>
    ELSE LET x == CHOOSE y \in S : TRUE IN <<x>> \o SetToSeq(S \ {x})

\* H = nx.MultiGraph(): the tree edges, then the matching edges, parallel
\* edges kept apart by their position in the sequence
Multigraph(T, matching) == SetToSeq(T) \o SetToSeq(matching)

\* the circuit without the test "if u not in seen"
RECURSIVE ShortcutTours_keepsRepeats(_, _, _, _)
ShortcutTours_keepsRepeats(H, cur, unused, tour) ==
    IF unused = {}
    THEN (IF cur = 0 THEN {tour} ELSE {})
    ELSE UNION {ShortcutTours_keepsRepeats(H,
                    IF H[i][1] = cur THEN H[i][2] ELSE H[i][1],
                    unused \ {i}, Append(tour, cur)) :
                i \in {k \in unused : H[k][1] = cur \/ H[k][2] = cur}}

\* list(nx.eulerian_circuit(H, source=0)) followed by the shortcut loop
\* "if u not in seen: tour.append(u)": every order in which some Eulerian
\* circuit from `cur` over the unused edges first visits the nodes
RECURSIVE ShortcutTours(_, _, _, _)
ShortcutTours(H, cur, unused, tour) ==
    LET t == IF cur \in Range(tour) THEN tour ELSE Append(tour, cur)
    IN  IF unused = {}
        THEN (IF cur = 0 THEN {tour} ELSE {})
        ELSE UNION {ShortcutTours(H,
                        IF H[i][1] = cur THEN H[i][2] ELSE H[i][1],
                        unused \ {i}, t) :
                    i \in {k \in unused : H[k][1] = cur \/ H[k][2] = cur}}

ChristofidesTours(M) ==
    UNION {UNION {ShortcutTours(Multigraph(T, P), 0,
                                1..(Cardinality(T) + Cardinality(P)), <<>>) :
                    P \in MinWeightMatchings(M, OddDegreeNodes(M, T))} :
           T \in MinimumSpanningTrees(M)}

\* how the graph library behaves inside the try block
Libraries == {"ok", "NetworkXError", "Exception"}

\* something is raised inside the try block of christofides_tsp: the
\* ValueError of a negative D[i][j], i < j, or an error of the library
FailsOver(M, library) ==
    \/ \E e \in Unordered(Size(M)) : M[e[1]][e[2]] < 0
    \/ library # "ok"

\* the body of christofides_tsp on M: the three checks that raise, then the
\* try block, whose handlers return _nearest_neighbor_fallback(D) for the
\* ValueError of a negative D[i][j], i < j, and for whatever the library
\* raises; otherwise one pair per choice the library makes among
\* equal-weight trees, matchings and circuits
christofides_body(M, library) ==
    IF Size(M) < 2
    THEN {[raised |-> "ValueError", tour |-> <<>>, dist |-> 0]}
    ELSE IF \E i \in DOMAIN M : Size(M[i]) # Size(M)
    THEN {[raised |-> "ValueError", tour |-> <<>>, dist |-> 0]}
    ELSE IF FailsOver(M, library)
    THEN {nearest_neighbor_fallback(M)}
    ELSE {[raised |-> "none",
           tour   |-> Append(t, 0),
           dist   |-> TourCost(M, Append(t, 0))] : t \in ChristofidesTours(M)}

\* christofides_tsp with a graph library that raises nothing
christofides_tsp(M) == christofides_body(M, "ok")

\* ------------------------------------------------------------------------
\*  Graphs: [kind, nodes, edges]; nodes maps a node id to [x, y], edges is
\*  the sequence g.edges(data=True) of [u, v, attrs], attrs a set of
\*  <<name, value>> pairs.  Coordinates are <<lat, lon>> on an integer grid.
\* ------------------------------------------------------------------------
Abs(x) == IF x < 0 THEN -x ELSE x

SamePair(e, f) == (e.u = f.u /\ e.v = f.v) \/ (e.u = f.v /\ e.v = f.u)

\* dict.update: the attributes of `new` override those of `old` by name
UpdateAttrs(old, new) ==
    {a \in old : ~\E b \in new : b[1] = a[1]} \cup new

\* nx.Graph.add_edge(u, v, **attrs): one edge per node pair, a second
\* add_edge on the same pair updates the attributes of the first
RECURSIVE GraphAddEdge(_, _, _)
GraphAddEdge(edges, e, k) ==
    IF k > Len(edges) THEN Append(edges, e)
    ELSE IF SamePair(edges[k], e)
    THEN [edges EXCEPT ![k].attrs = UpdateAttrs(@, e.attrs)]
    ELSE GraphAddEdge(edges, e, k + 1)

\* nx.complete_graph(len(coords)) with x = lon, y = lat on node i
RECURSIVE CompleteEdges(_, _, _)
CompleteEdges(n, i, j) ==
    IF i >= n - 1 THEN <<>>
    ELSE IF j >= n THEN CompleteEdges(n, i + 1, i + 2)
    ELSE <<[u |-> i, v |-> j, attrs |-> {}]>> \o CompleteEdges(n, i, j + 1)

FallbackGraph(coords) ==
    [kind  |-> "Graph",
     nodes |-> [i \in 0..(Len(coords) - 1) |->
                    [x |-> coords[i + 1][2], y |-> coords[i + 1][1]]],
     edges |-> CompleteEdges(Len(coords), 0, 1)]

\* list(range(1, len(coords) + 1))
RangeList_fromOne(n) == [i \in 1..n |-> i]

\* list(range(len(coords)))
RangeList(n) == [i \in 1..n |-> i - 1]

\* ------------------------------------------------------------------------
\*  networkx_to_serializable / serializable_to_networkx
\* ------------------------------------------------------------------------
\* str(node), and its way back: int(node_id) if node_id.isdigit()
Str(node) == [digits |-> node]

NodeFromStr(s) == IF s.digits >= 0 THEN s.digits ELSE s

\* make_serializable on one edge attribute <<name, value>>.  The isinstance
\* tests are decided by the attribute: "geometry" holds a LineString
\* [points], "osmid" a set of ids, every other value passes json.dumps
make_serializable(a) ==
    IF a[1] = "geometry"
    THEN <<a[1], [geometry_wkt |-> <<"LINESTRING", a[2].points>>]>>
    ELSE IF a[1] = "osmid"
    THEN <<a[1], [set_list |-> SetToSeq(a[2])]>>
    ELSE a

\* restore_object: wkt_loads on {"__geometry__": ...}, set() on
\* {"__set__": ...}, every other value unchanged
restore_object(a) ==
    IF a[1] = "geometry"
    THEN <<a[1], [points |-> a[2].geometry_wkt[2]]>>
    ELSE IF a[1] = "osmid"
    THEN <<a[1], Range(a[2].set_list)>>
    ELSE a

networkx_to_serializable(g) ==
    [nodes |-> [s \in {Str(v) : v \in DOMAIN g.nodes} |-> g.nodes[s.digits]],
     edges |-> [k \in 1..Len(g.edges) |->
                    [u     |-> Str(g.edges[k].u),
                     v     |-> Str(g.edges[k].v),
                     attrs |-> {make_serializable(a) :
                                    a \in g.edges[k].attrs}]]]

RECURSIVE RestoreEdges(_, _, _)
RestoreEdges(data, k, acc) ==
    IF k > Len(data.edges) THEN acc
    ELSE RestoreEdges(data, k + 1,
            GraphAddEdge(acc, [u     |-> NodeFromStr(data.edges[k].u),
                               v     |-> NodeFromStr(data.edges[k].v),
                               attrs |-> {restore_object(a) :
                                            a \in data.edges[k].attrs}], 1))

\* g = nx.Graph(), then add_node / add_edge for every stored node and edge
serializable_to_networkx(data) ==
    [kind  |-> "Graph",
     nodes |-> [v \in {NodeFromStr(s) : s \in DOMAIN data.nodes} |->
                    data.nodes[Str(v)]],
     edges |-> RestoreEdges(data, 1, <<>>)]

\* ------------------------------------------------------------------------
\*  Cache files: json.dump / json.load
\* ------------------------------------------------------------------------
JsonDump(value) == [fmt |-> "json", root |-> value]

\* a file json.load rejects with JSONDecodeError
Malformed == [fmt |-> "malformed", root |-> <<>>]

\* the well-formed document "[]": neither a [graph, nodes] pair nor a matrix
EmptyList == [fmt |-> "json", root |-> <<>>]

\* file_age <= timeout: an entry exactly timeout old still served
FreshEntry_inclusive(entry, t) == t - entry.mtime <= CACHE_TIMEOUT

\* file_age < timeout
FreshEntry(entry, t) == t - entry.mtime < CACHE_TIMEOUT

\* ------------------------------------------------------------------------
\*  haversine_distance, distance_matrix
\* ------------------------------------------------------------------------
Isqrt(x) == CHOOSE r \in 0..x : r * r <= x /\ x < (r + 1) * (r + 1)

\* great-circle distance times 1000 (km to m), with one grid step of the
\* coordinates taken as one kilometre in each direction
HaversineMetres(p, q) ==
    LET dlat == Abs(p[1] - q[1])
        dlon == Abs(p[2] - q[2])
    IN  IF dlon = 0 THEN 1000 * dlat
        ELSE IF dlat = 0 THEN 1000 * dlon
        ELSE 100 * Isqrt(100 * (dlat * dlat + dlon * dlon))

\* weight="length": the attribute, 1 when an edge has none
EdgeLength(e) ==
    IF \E a \in e.attrs : a[1] = "length"
    THEN (CHOOSE a \in e.attrs : a[1] = "length")[2]
    ELSE 1

\* dijkstra path length from s to t over at most k edges; Inf when t is
\* not reached (no key in the result)
RECURSIVE PathLength(_, _, _, _)
PathLength(g, s, t, k) ==
    IF s = t THEN 0
    ELSE IF k = 0 THEN Inf
    ELSE Min({Inf} \cup
             {AddInf(PathLength(g, IF g.edges[i].u = s THEN g.edges[i].v
                                                         ELSE g.edges[i].u,
                                t, k - 1),
                     EdgeLength(g.edges[i])) :
                i \in {m \in 1..Len(g.edges) :
                        g.edges[m].u = s \/ g.edges[m].v = s}})

ShortestLength(g, s, t) == PathLength(g, s, t, Cardinality(DOMAIN g.nodes) - 1)

NodePos(g, v) == <<g.nodes[v].y, g.nodes[v].x>>

\* "if n <= 20": the assignments handled with the all-pairs table
ALL_PAIRS_LIMIT == 20

\* nx.single_source_dijkstra_path_length(g, src, weight="length"): a
\* dictionary with one key per node reachable from src
DijkstraLengths(g, src) ==
    [t \in {v \in DOMAIN g.nodes : ShortestLength(g, src, v) < Inf} |->
        ShortestLength(g, src, t)]

\* a pair without a path keeps the 0.0 the matrix was created with
Cell_leavesZero(g, lengths, src, tgt) ==
    IF tgt \in DOMAIN lengths THEN lengths[tgt] ELSE 0

\* one cell: lengths[tgt], and in the KeyError handler the haversine
\* distance in metres between the stored positions of the two nodes
Cell(g, lengths, src, tgt) ==
    IF tgt \in DOMAIN lengths THEN lengths[tgt]
    ELSE HaversineMetres(NodePos(g, src), NodePos(g, tgt))

\* only D[i][j] is assigned, D[j][i] keeps 0.0
Mirror_upperOnly(upper, i, j) ==
    IF i < j THEN upper[<<i, j>>] ELSE 0

\* "D[i][j] = D[j][i] = ..." for i < j; the diagonal keeps 0.0
Mirror(upper, i, j) ==
    IF i = j THEN 0
    ELSE IF i < j THEN upper[<<i, j>>] ELSE upper[<<j, i>>]

UpperPairs(n) == {q \in (0..(n - 1)) \X (0..(n - 1)) : q[1] < q[2]}

\* the branch n <= 20: paths = dict(nx.all_pairs_dijkstra_path_length(g))
AllPairsMatrix(g, nodes) ==
    LET n     == Len(nodes)
        paths == [src \in DOMAIN g.nodes |-> DijkstraLengths(g, src)]
        upper == [q \in UpperPairs(n) |->
                    Cell(g, paths[nodes[q[1] + 1]],
                         nodes[q[1] + 1], nodes[q[2] + 1])]
    IN  [i \in 0..(n - 1) |-> [j \in 0..(n - 1) |-> Mirror(upper, i, j)]]

\* the branch n > 20: one single-source table per row
SingleSourceMatrix(g, nodes) ==
    LET n     == Len(nodes)
        upper == [q \in UpperPairs(n) |->
                    LET lengths == DijkstraLengths(g, nodes[q[1] + 1])
                    IN  Cell(g, lengths, nodes[q[1] + 1], nodes[q[2] + 1])]
    IN  [i \in 0..(n - 1) |-> [j \in 0..(n - 1) |-> Mirror(upper, i, j)]]

\* the body of distance_matrix; a node of `nodes` that is not in g raises
\* KeyError in every handler, the last of which lets it escape
distance_matrix(g, nodes) ==
    LET n == Len(nodes)
    IN  IF n >= 2 /\ \E i \in 1..n : nodes[i] \notin DOMAIN g.nodes
        THEN [raised |-> "KeyError", value |-> <<>>]
        ELSE [raised |-> "none",
              value  |-> IF n <= ALL_PAIRS_LIMIT
                         THEN AllPairsMatrix(g, nodes)
                         ELSE SingleSourceMatrix(g, nodes)]

\* ------------------------------------------------------------------------
\*  get_graph_and_nodes (the wrapped function)
\* ------------------------------------------------------------------------
\* @offline_cache(require_internet=True)
require_internet == TRUE

\* ox.distance.nearest_nodes(g, lon, lat): the nodes at least distance
SquaredDist(p, q) ==
    (p[1] - q[1]) * (p[1] - q[1]) + (p[2] - q[2]) * (p[2] - q[2])

NearestNodes(g, c) ==
    {v \in DOMAIN g.nodes :
        \A w \in DOMAIN g.nodes :
            SquaredDist(NodePos(g, v), c) <= SquaredDist(NodePos(g, w), c)}

\* g.nodes[node]['x'] += jitter * 0.0001 * random.random(), same for 'y'
Displace(g, v, dx, dy) ==
    [g EXCEPT !.nodes[v] = [x |-> @.x + dx, y |-> @.y + dy]]

\* nodes = ox.distance.nearest_nodes(g, lons, lats): one nearest node per
\* coordinate, looked up before the loop
InitialLookup(g, coords) ==
    {f \in [1..Len(coords) -> DOMAIN g.nodes] :
        \A k \in 1..Len(coords) : f[k] \in NearestNodes(g, coords[k])}

\* "if jitter > 20": the value the retry counter must pass for the escape
JITTER_LIMIT == 20

\* the escape taken as soon as the counter reaches the limit
JitterExhausted_atLimit(jitter) == jitter >= JITTER_LIMIT

\* "if jitter > 20"
JitterExhausted(jitter) == jitter > JITTER_LIMIT

\* the loop "while True" for the coordinate c at position idx, entered
\* with the counter at `jitter`: the lookup at the unjittered point returns
\* a nearest node of c, a lookup at a jittered point may return any node.
\* A node not in `seen` ends the loop; a node in `seen` adds one to the
\* counter and, once the counter passes the limit, the escape keeps
\* nodes[idx] and displaces its stored position.  `fails` counts the
\* lookups that returned a node of `seen`
RECURSIVE Retry(_, _, _, _, _, _)
Retry(g, nodes, c, idx, seen, jitter) ==
    LET looked == IF jitter = 0 THEN NearestNodes(g, c) ELSE DOMAIN g.nodes
    IN  {[g |-> g, node |-> v, escaped |-> FALSE, fails |-> jitter] :
            v \in looked \ seen}
        \cup
        (IF looked \cap seen = {} THEN {}
         ELSE IF JitterExhausted(jitter + 1)
         THEN {[g       |-> Displace(g, nodes[idx], d[1], d[2]),
                node    |-> nodes[idx],
                escaped |-> TRUE,
                fails   |-> jitter + 1] : d \in (0..1) \X (0..1)}
         ELSE Retry(g, nodes, c, idx, seen, jitter + 1))

\* the outcomes that went through "if jitter > 20"
Escaped(S) == {[r EXCEPT !.escaped = TRUE] : r \in S}

\* the loop without the test "if node not in seen": the looked-up node is
\* appended whether or not an earlier coordinate has it
RECURSIVE Resolve_acceptsSeen(_, _, _, _, _, _)
Resolve_acceptsSeen(g, nodes, coords, idx, seen, new_nodes) ==
    IF idx > Len(coords)
    THEN {[g |-> g, nodes |-> new_nodes, escaped |-> FALSE]}
    ELSE UNION {Resolve_acceptsSeen(g, nodes, coords, idx + 1,
                                    seen \cup {first}, Append(new_nodes, first)) :
                    first \in NearestNodes(g, coords[idx])}

\* the loop "for idx, (lat, lon) in enumerate(coords)": one pass of the
\* retry loop per coordinate; a node taken by the test "not in seen" joins
\* `seen`, the node of the escape does not
RECURSIVE Resolve(_, _, _, _, _, _)
Resolve(g, nodes, coords, idx, seen, new_nodes) ==
    IF idx > Len(coords)
    THEN {[g |-> g, nodes |-> new_nodes, escaped |-> FALSE]}
    ELSE UNION {
        IF r.escaped
        THEN Escaped(Resolve(r.g, nodes, coords, idx + 1, seen,
                             Append(new_nodes, r.node)))
        ELSE Resolve(r.g, nodes, coords, idx + 1, seen \cup {r.node},
                     Append(new_nodes, r.node))
        : r \in {[g |-> q.g, node |-> q.node, escaped |-> q.escaped] :
                    q \in Retry(g, nodes, coords[idx], idx, seen, 0)}}

\* the body of get_graph_and_nodes with the path it took: `fetch` is what
\* ox.graph_from_polygon gives (not ok when it raises, else the road
\* graph, already undirected), `lookup` how the nearest-node lookup ends
LookupOutcomes(coords, fetch, lookup) ==
    IF ~fetch.ok
    THEN {[raised  |-> "none", escaped |-> FALSE,
           value   |-> [g |-> FallbackGraph(coords),
                        nodes |-> RangeList(Len(coords))]]}
    ELSE IF lookup = "ImportError"
    THEN {[raised |-> "ImportError", escaped |-> FALSE, value |-> <<>>]}
    ELSE IF lookup = "Exception"
    THEN {[raised  |-> "none", escaped |-> FALSE,
           value   |-> [g |-> fetch.g,
                        nodes |-> RangeList(
                            Min({Len(coords), Cardinality(DOMAIN fetch.g.nodes)}))]]}
    ELSE {[raised |-> "none", escaped |-> r.escaped,
           value  |-> [g |-> r.g, nodes |-> r.nodes]] :
            r \in UNION {Resolve(fetch.g, nodes, coords, 1, {}, <<>>) :
                            nodes \in InitialLookup(fetch.g, coords)}}

\* the outcomes of one call: what it raises or returns
get_graph_and_nodes(coords, fetch, lookup) ==
    {[raised |-> o.raised, value |-> o.value] :
        o \in LookupOutcomes(coords, fetch, lookup)}

\* ------------------------------------------------------------------------
\*  offline_cache and file_cache (the wrappers)
\* ------------------------------------------------------------------------
\* sha1 of the function name and the stringified arguments
GraphKey(coords) == <<"get_graph_and_nodes", coords>>

\* str(g) is "<class> with <n> nodes and <m> edges"
GraphStr(g) == <<g.kind, Cardinality(DOMAIN g.nodes), Len(g.edges)>>

DistKey(g, nodes) == <<"distance_matrix", <<GraphStr(g), nodes>>>>

NoEntry == [present |-> FALSE]

Found(fs, key) ==
    IF key \in DOMAIN fs
    THEN [present |-> TRUE, mtime |-> fs[key].mtime, content |-> fs[key].content]
    ELSE NoEntry

\* graph_data, nodes = cached_data: only a two-element list unpacks
IsGraphPair(root) == Len(root) = 2

\* what reading the entry gives: "hit" with the value, "corrupt" for the
\* caught JSONDecodeError, "raise" for an exception the handler
\* (json.JSONDecodeError, IOError) does not catch
LoadGraphEntry(entry) ==
    IF entry.content.fmt = "malformed"
    THEN [how |-> "corrupt", value |-> <<>>]
    ELSE IF ~IsGraphPair(entry.content.root)
    THEN [how |-> "raise", value |-> <<>>]
    ELSE [how |-> "hit",
          value |-> [g     |-> serializable_to_networkx(entry.content.root[1]),
                     nodes |-> entry.content.root[2]]]

\* the file_cache branch for every function but get_graph_and_nodes:
\* cached_data is returned as loaded
LoadPlainEntry(entry) ==
    IF entry.content.fmt = "malformed"
    THEN [how |-> "corrupt", value |-> <<>>]
    ELSE [how |-> "hit", value |-> entry.content.root]

\* an existing entry counts as valid when offline, whatever the caller asked
cache_valid_ignoresRequire(found, t, internet_available, required) ==
    found.present /\ (FreshEntry(found, t) \/ ~internet_available)

\* cache_valid as the wrapper computes it, `required` being the decorator
\* argument require_internet
cache_valid(found, t, internet_available, required) ==
    /\ found.present
    /\ \/ FreshEntry(found, t)
       \/ (~internet_available /\ ~required)

\* cache_valid of the decorated get_graph_and_nodes
OfflineCacheValid(found, t, internet_available) ==
    cache_valid(found, t, internet_available, require_internet)

\* one outcome of a wrapper call: how it ended ("hit": the entry was
\* served, "load_raised": reading the entry raised past the handler,
\* "fallback": the synthetic graph of the offline branch, "computed": the
\* wrapped function ran), the value returned or the exception raised, and
\* the content written to the cache file
Outcome(how, raised, value, write, content) ==
    [how |-> how, raised |-> raised, value |-> value,
     invoked |-> (how = "computed"), write |-> write, content |-> content]

\* the wrapper offline_cache(require_internet=required) builds around
\* get_graph_and_nodes: the set of outcomes of one call
wrapper(fs, t, coords, internet_available, required, fetch, lookup) ==
    LET found == Found(fs, GraphKey(coords))
        valid == cache_valid(found, t, internet_available, required)
        load  == IF valid THEN LoadGraphEntry(found)
                          ELSE [how |-> "skip", value |-> <<>>]
    IN  IF load.how = "hit"
        THEN {Outcome("hit", "none", load.value, FALSE, Malformed)}
        ELSE IF load.how = "raise"
        THEN {Outcome("load_raised", "ValueError", <<>>, FALSE, Malformed)}
        ELSE IF ~internet_available /\ required
        THEN {Outcome("fallback", "none",
                      [g |-> FallbackGraph(coords),
                       nodes |-> RangeList(Len(coords))], FALSE, Malformed)}
        ELSE {IF r.raised # "none"
              THEN Outcome("computed", r.raised, <<>>, FALSE, Malformed)
              ELSE Outcome("computed", "none", r.value, TRUE,
                           JsonDump(<<networkx_to_serializable(r.value.g),
                                      r.value.nodes>>))
              : r \in get_graph_and_nodes(coords, fetch, lookup)}

\* @offline_cache(require_internet=True) def get_graph_and_nodes
offline_cache(fs, t, coords, internet_available, fetch, lookup) ==
    wrapper(fs, t, coords, internet_available, require_internet, fetch, lookup)

\* file_cache around distance_matrix
file_cache(fs, t, g, nodes) ==
    LET found == Found(fs, DistKey(g, nodes))
        load  == IF found.present /\ FreshEntry(found, t)
                 THEN LoadPlainEntry(found)
                 ELSE [how |-> "skip", value |-> <<>>]
        r     == distance_matrix(g, nodes)
    IN  IF load.how = "hit"
        THEN Outcome("hit", "none", load.value, FALSE, Malformed)
        ELSE IF r.raised # "none"
        THEN Outcome("computed", r.raised, <<>>, FALSE, Malformed)
        ELSE Outcome("computed", "none", r.value, TRUE, JsonDump(r.value))

\* ------------------------------------------------------------------------
\*  CacheSpec: planning runs calling the two cached operations, the clock,
\*  the sweep of old files
\* ------------------------------------------------------------------------
P0 == <<0, 0>>
P1 == <<2, 0>>

\* self.coords of the runs: the depot and one stop
Coords == <<P0, P1>>

RoadNodes == (11 :> [x |-> 0, y |-> 0]) @@ (12 :> [x |-> 0, y |-> 2])

\* a road network with one street between its two junctions, and one with
\* two parallel streets of different length
RoadSimple ==
    [kind |-> "MultiGraph", nodes |-> RoadNodes,
     edges |-> <<[u |-> 11, v |-> 12, attrs |-> {<<"length", 3>>}]>>]

RoadParallel ==
    [kind |-> "MultiGraph", nodes |-> RoadNodes,
     edges |-> <<[u |-> 11, v |-> 12, attrs |-> {<<"length", 3>>}],
                 [u |-> 11, v |-> 12, attrs |-> {<<"length", 5>>}]>>]

\* ox.graph_from_polygon raised: no graph
FetchError == [ok |-> FALSE, g |-> [kind |-> "none", nodes |-> <<>>, edges |-> <<>>]]

\* the installation: the road network the data service has for the area,
\* and how the nearest-node lookup ends on this machine
Worlds == {RoadSimple, RoadParallel}

Lookups == {"ok", "ImportError", "Exception"}

NoCall == [called |-> FALSE]

CacheInit ==
    /\ now = 0
    /\ files = <<>>
    /\ lastGraph = NoCall
    /\ lastDist = NoCall
    /\ runs = 0

\* what a call leaves in the cache directory; `value` remembers what the
\* storing call returned
Written(fs, key, t, out) ==
    IF out.write
    THEN (key :> [mtime |-> t, content |-> out.content,
                  intact |-> TRUE, value |-> out.value]) @@ fs
    ELSE fs

\* what is kept of a call: the entry it found, how it ended, the entry
\* it left
EntryAt(fs, key) ==
    IF key \in DOMAIN fs THEN [present |-> TRUE] @@ fs[key] ELSE NoEntry

CallRecord(key, t, fs, out) ==
    [called |-> TRUE, key |-> key, t |-> t,
     found  |-> EntryAt(fs, key),
     how |-> out.how, raised |-> out.raised, value |-> out.value,
     invoked |-> out.invoked,
     left   |-> EntryAt(Written(fs, key, t, out), key)]

\* a run starts: g, nodes = get_graph_and_nodes(self.coords)
CallGetGraphAndNodes ==
    /\ runs < MaxRuns
    /\ runs' = runs + 1
    /\ \E internet_available \in BOOLEAN,
          fetch \in {FetchError, [ok |-> TRUE, g |-> env.world]} :
        \E out \in offline_cache(files, now, Coords, internet_available,
                                 fetch, env.lookup) :
            /\ files' = Written(files, GraphKey(Coords), now, out)
            /\ lastGraph' = CallRecord(GraphKey(Coords), now, files, out)
                              @@ [internet |-> internet_available]
    /\ lastDist' = NoCall
    /\ UNCHANGED <<now, env, solverVars, uiVars, fnVars>>

\* the run goes on: D = distance_matrix(g, nodes)
CallDistanceMatrix ==
    /\ lastGraph.called
    /\ lastGraph.raised = "none"
    /\ ~lastDist.called
    /\ LET g     == lastGraph.value.g
           nodes == lastGraph.value.nodes
           out   == file_cache(files, now, g, nodes)
       IN  /\ files' = Written(files, DistKey(g, nodes), now, out)
           /\ lastDist' = CallRecord(DistKey(g, nodes), now, files, out)
    /\ UNCHANGED <<now, lastGraph, runs, env, solverVars, uiVars, fnVars>>

\* time passes
Tick ==
    /\ now < MaxTime
    /\ now' = now + 1
    /\ UNCHANGED <<files, lastGraph, lastDist, runs, env, solverVars, uiVars, fnVars>>

\* cleanup_old_cache_files: file_age > CACHE_TIMEOUT
cleanup_old_cache_files ==
    /\ \E k \in DOMAIN files : now - files[k].mtime > CACHE_TIMEOUT
    /\ files' = [k \in {x \in DOMAIN files :
                            ~(now - files[x].mtime > CACHE_TIMEOUT)} |-> files[k]]
    /\ UNCHANGED <<now, lastGraph, lastDist, runs, env, solverVars, uiVars, fnVars>>

\* the cache directory is shared with other processes and outlives the
\* program: a file can be found truncated or holding another document
CorruptEntry ==
    \E k \in DOMAIN files, c \in {Malformed, EmptyList} :
        /\ files[k].intact
        /\ files' = [files EXCEPT ![k] = [mtime |-> @.mtime, content |-> c,
                                          intact |-> FALSE, value |-> <<>>]]
        /\ UNCHANGED <<now, lastGraph, lastDist, runs, env, solverVars, uiVars, fnVars>>

CacheNext ==
    \/ CallGetGraphAndNodes
    \/ CallDistanceMatrix
    \/ Tick
    \/ cleanup_old_cache_files
    \/ CorruptEntry

\* ------------------------------------------------------------------------
\*  Worker (QThread) and PlannerUI: state
\* ------------------------------------------------------------------------
MAX_STOPS_EXACT_ALGORITHM == 12
DEFAULT_STOPS == 5

\* the three attributes of PlannerUI that hold a Worker
Slots == {"worker", "hk_worker", "ch_worker"}

\* progress.emit(percent, message) and finished.emit(payload); the payload
\* is {"error": ...} or the result dictionary
Progress(percent) ==
    [signal |-> "progress", percent |-> percent, error |-> FALSE]

Finished(error) ==
    [signal |-> "finished", percent |-> -1, error |-> error]

\* an attribute with no thread behind it (never assigned, or its thread's
\* finished signal has been handled)
NoThread ==
    [pc |-> "none", n |-> 0, mode |-> 0, solver |-> "none", i |-> 0,
     tour_len |-> 0, emitted |-> <<>>]

\* Worker(coords, mode) followed by start(); n is len(self.coords)
Worker(n, mode) ==
    [pc |-> "start", n |-> n, mode |-> mode, solver |-> "none", i |-> 0,
     tour_len |-> 0, emitted |-> <<>>]

Emit(t, signals) == [t EXCEPT !.emitted = @ \o signals]

\* no function applied yet
NotApplied == [op |-> "none"]

\* PlannerUI.__init__: DEFAULT_STOPS rows, auto mode, nothing running
UiInit ==
    /\ result = NotApplied
    /\ rows = DEFAULT_STOPS
    /\ alg = 0
    /\ is_planning = FALSE
    /\ enabled = TRUE
    /\ tasks = [s \in Slots |-> NoThread]
    /\ pending = <<>>

\* ------------------------------------------------------------------------
\*  SolverSpec: draw a matrix, apply the solvers
\* ------------------------------------------------------------------------
\* the matrices distance_matrix produces: symmetric, zero diagonal, >= 0
SymMatrix(n, w) ==
    [i \in 0..(n - 1) |-> [j \in 0..(n - 1) |->
        IF i = j THEN 0 ELSE IF i < j THEN w[<<i, j>>] ELSE w[<<j, i>>]]]

\* all distances 1 except on a set H of at most MaxOff pairs
OffMatrices(n) ==
    UNION {{SymMatrix(n, [e \in Unordered(n) |-> IF e \in H THEN w[e] ELSE 1]) :
                w \in [H -> 0..MaxW]} :
           H \in {X \in SUBSET Unordered(n) : Cardinality(X) <= MaxOff}}

Matrices == UNION {OffMatrices(n) : n \in 2..MaxN}

NoResult == [alg |-> "none", raised |-> "none", tour |-> <<>>, dist |-> 0]

IdleEnv == [world |-> RoadSimple, lookup |-> "ok"]

SolverInit ==
    /\ D \in Matrices
    /\ solved = NoResult
    /\ CacheInit
    /\ env = IdleEnv
    /\ UiInit

RunHeldKarp ==
    /\ solved.alg = "none"
    /\ solved' = [alg |-> "held_karp"] @@ held_karp_tsp(D)
    /\ UNCHANGED <<D, cacheVars, uiVars, fnVars>>

RunChristofides ==
    /\ solved.alg = "none"
    /\ \E r \in christofides_tsp(D) : solved' = [alg |-> "christofides"] @@ r
    /\ UNCHANGED <<D, cacheVars, uiVars, fnVars>>

RunNearestNeighbor ==
    /\ solved.alg = "none"
    /\ solved' = [alg |-> "nearest_neighbor"] @@ nearest_neighbor_fallback(D)
    /\ UNCHANGED <<D, cacheVars, uiVars, fnVars>>

SolverNext == RunHeldKarp \/ RunChristofides \/ RunNearestNeighbor

vars == <<solverVars, cacheVars, uiVars, fnVars>>

SolverSpec == SolverInit /\ [][SolverNext]_vars

CacheSpecInit ==
    /\ CacheInit
    /\ env \in [world : Worlds, lookup : Lookups]
    /\ D = <<>>
    /\ solved = NoResult
    /\ UiInit

CacheSpec ==
    /\ CacheSpecInit
    /\ [][CacheNext]_vars

\* ------------------------------------------------------------------------
\*  SaveSpec: the two wrappers saving a result to the cache directory while
\*  another call reads it
\* ------------------------------------------------------------------------
\* The text json.dump produces reaches the file one buffer at a time; a
\* text is the sequence of its buffer-fulls, each naming the document, its
\* position and how many the document takes.
TextOf(doc, n) == [i \in 1..n |-> [doc |-> doc, part |-> i, of |-> n]]

\* open(cache_file, "w"): the file exists and is empty
Truncated(old) == <<>>

\* the buffers that have reached the file after one more is flushed
Flushed(text, written) == SubSeq(text, 1, written + 1)

\* the two cache files: get_graph_and_nodes(Coords) under offline_cache,
\* distance_matrix(g, nodes) under file_cache
SavedKey(w) ==
    IF w = "offline_cache" THEN GraphKey(Coords)
                           ELSE DistKey(RoadSimple, <<11, 12>>)

\* what a call can have to save: the result over the road network or over
\* the synthetic graph
SavedDocs(w) ==
    IF w = "offline_cache"
    THEN {JsonDump(<<networkx_to_serializable(RoadSimple), <<11, 12>>>>),
          JsonDump(<<networkx_to_serializable(FallbackGraph(Coords)), <<0, 1>>>>)}
    ELSE {JsonDump(distance_matrix(RoadSimple, <<11, 12>>).value),
          JsonDump(distance_matrix(FallbackGraph(Coords), <<0, 1>>).value)}

Wrappers == {"offline_cache", "file_cache"}

Saving(w) == IF w = "offline_cache" THEN lastGraph ELSE lastDist

SaveInit ==
    /\ CacheInit
    /\ env = IdleEnv
    /\ D = <<>>
    /\ solved = NoResult
    /\ UiInit
    /\ result = [op |-> "none"]

\* with open(cache_file, "w") as f: a call has its result and opens the
\* cache file for writing
OpenCacheFile ==
    /\ \E w \in Wrappers : \E doc \in SavedDocs(w), n \in 1..MaxBuffers :
        /\ ~Saving(w).called
        /\ LET k   == SavedKey(w)
               old == IF k \in DOMAIN files THEN files[k].text ELSE <<>>
               pos == [called |-> TRUE, key |-> k, text |-> TextOf(doc, n),
                       written |-> 0]
           IN  /\ files' = (k :> [mtime |-> now, text |-> Truncated(old)]) @@ files
               /\ IF w = "offline_cache"
                  THEN lastGraph' = pos /\ UNCHANGED lastDist
                  ELSE lastDist' = pos /\ UNCHANGED lastGraph
    /\ UNCHANGED <<now, runs, env, solverVars, uiVars, fnVars>>

\* json.dump(result, f): a full buffer goes to the file
FlushBuffer ==
    /\ \E w \in Wrappers :
        /\ Saving(w).called
        /\ Saving(w).written < Len(Saving(w).text) - 1
        /\ files' = [files EXCEPT ![Saving(w).key].text =
                        Flushed(Saving(w).text, Saving(w).written)]
        /\ IF w = "offline_cache"
           THEN /\ lastGraph' = [lastGraph EXCEPT !.written = @ + 1]
                /\ UNCHANGED lastDist
           ELSE /\ lastDist' = [lastDist EXCEPT !.written = @ + 1]
                /\ UNCHANGED lastGraph
    /\ UNCHANGED <<now, runs, env, solverVars, uiVars, fnVars>>

\* leaving the with block: the rest of the text goes to the file
CloseCacheFile ==
    /\ \E w \in Wrappers :
        /\ Saving(w).called
        /\ files' = [files EXCEPT ![Saving(w).key].text = Saving(w).text]
        /\ IF w = "offline_cache"
           THEN lastGraph' = NoCall /\ UNCHANGED lastDist
           ELSE lastDist' = NoCall /\ UNCHANGED lastGraph
    /\ UNCHANGED <<now, runs, env, solverVars, uiVars, fnVars>>

\* another call with the same key: cache_file.exists(), then
\* with open(cache_file, "r") as f: json.load(f)
ReadCacheFile ==
    /\ \E k \in DOMAIN files :
            result' = [op |-> "read", key |-> k, text |-> files[k].text]
    /\ UNCHANGED <<solverVars, cacheVars, uiVars>>

SaveNext ==
    \/ OpenCacheFile
    \/ FlushBuffer
    \/ CloseCacheFile
    \/ ReadCacheFile

SaveSpec == SaveInit /\ [][SaveNext]_vars

\* ------------------------------------------------------------------------
\*  FunctionSpec: an input is drawn, one function is applied to it
\* ------------------------------------------------------------------------
\* the entry an earlier call stored at time 0 for Coords, or what is found
\* in its place
StoredGraph == JsonDump(<<networkx_to_serializable(RoadSimple), <<11, 12>>>>)

CacheDirs ==
    {<<>>} \cup
    {GraphKey(Coords) :> [mtime |-> 0, content |-> c] :
        c \in {StoredGraph, Malformed, EmptyList}}

\* a call of the wrapper: the cache directory, the clock, what the probe
\* reports, the decorator argument, what the data service answers
WrapperInputs ==
    {[op |-> "offline_cache", fs |-> fs, t |-> t, coords |-> c,
      internet |-> ia, required |-> rq, fetch |-> f] :
        fs \in CacheDirs, t \in 0..MaxTime, ia \in BOOLEAN, rq \in BOOLEAN,
        c \in {Coords, Append(Coords, <<0, 2>>)},
        f \in {FetchError, [ok |-> TRUE, g |-> RoadSimple]}}

ApplyOfflineCache ==
    /\ result.op = "none"
    /\ env.op = "offline_cache"
    /\ \E out \in wrapper(env.fs, env.t, env.coords, env.internet,
                          env.required, env.fetch, "ok") :
        result' = [op |-> "offline_cache", out |-> out]
    /\ UNCHANGED <<solverVars, cacheVars, uiVars>>

\* the attribute dictionaries of the streets of a drawn road network
StreetAttrs ==
    {{<<"length", 3>>},
     {<<"length", 5>>},
     {<<"length", 3>>, <<"geometry", [points |-> <<P0, P1>>]>>},
     {<<"length", 5>>, <<"osmid", {7, 8}>>}}

\* drawn graphs: MultiGraphs with up to MaxStreets streets between the two
\* junctions of RoadNodes (what to_undirected leaves of an OSM drive
\* network), and the synthetic complete graph
RECURSIVE StreetLists(_)
StreetLists(k) ==
    IF k = 0 THEN {<<>>}
    ELSE LET shorter == StreetLists(k - 1)
         IN  shorter \cup
             {Append(q, [u |-> 11, v |-> 12, attrs |-> a]) :
                q \in {r \in shorter : Len(r) = k - 1}, a \in StreetAttrs}

RoadGraphs ==
    {[kind |-> "MultiGraph", nodes |-> RoadNodes, edges |-> q] :
        q \in StreetLists(MaxStreets)}

RoundTripInputs ==
    {[op |-> "round_trip", g |-> g] : g \in RoadGraphs \cup {FallbackGraph(Coords)}}

ApplyRoundTrip ==
    /\ result.op = "none"
    /\ env.op = "round_trip"
    /\ result' = [op |-> "round_trip",
                  g  |-> serializable_to_networkx(
                            networkx_to_serializable(env.g))]
    /\ UNCHANGED <<solverVars, cacheVars, uiVars>>

\* a road network of four junctions, 14 lying where 13 lies and joined to
\* nothing, with any of three streets present
IslandNodes ==
    RoadNodes @@ (13 :> [x |-> 2, y |-> 0]) @@ (14 :> [x |-> 2, y |-> 0])

StreetChoices ==
    {[u |-> 11, v |-> 12, attrs |-> {<<"length", 3>>}],
     [u |-> 12, v |-> 13, attrs |-> {<<"length", 4>>}],
     [u |-> 11, v |-> 13, attrs |-> {<<"length", 9>>}]}

IslandGraphs ==
    {[kind |-> "MultiGraph", nodes |-> IslandNodes, edges |-> SetToSeq(E)] :
        E \in SUBSET StreetChoices}

\* the node lists handed to distance_matrix: every list of 1..MaxAssign
\* junctions (duplicates are what the escape of the jitter loop leaves),
\* one list longer than ALL_PAIRS_LIMIT, one naming a node the graph lacks
LongAssignment ==
    [k \in 1..(ALL_PAIRS_LIMIT + 1) |-> 11 + (k % 3)]

Assignments ==
    UNION {[1..n -> DOMAIN IslandNodes] : n \in 1..MaxAssign}
        \cup {LongAssignment, <<11, 99>>}

MatrixInputs ==
    {[op |-> "distance_matrix", g |-> g, nodes |-> a] :
        g \in IslandGraphs, a \in Assignments}

ApplyDistanceMatrix ==
    /\ result.op = "none"
    /\ env.op = "distance_matrix"
    /\ result' = [op |-> "distance_matrix",
                  out |-> distance_matrix(env.g, env.nodes)]
    /\ UNCHANGED <<solverVars, cacheVars, uiVars>>

\* two calls of the decorated distance_matrix on one cache directory: the
\* first, at time 0 on an empty directory, with the graph `first`; the
\* second at time t with the graph g and the same node list. The graphs
\* are road graphs, or the synthetic graphs of two coordinate lists, of
\* equal node and edge counts.
FallbackPairs == {Coords, <<P0, <<0, 2>>>>, <<P1, <<1, 2>>>>}

CachedGraphs ==
    IslandGraphs \cup {FallbackGraph(c) : c \in FallbackPairs}

FileCacheInputs ==
    UNION {{[op |-> "file_cache", first |-> g1, g |-> g2, nodes |-> a, t |-> t] :
                a \in {x \in [1..2 -> DOMAIN g1.nodes] : x[1] < x[2]},
                t \in 0..MaxTime} :
           g1, g2 \in CachedGraphs}

ApplyFileCache ==
    /\ result.op = "none"
    /\ env.op = "file_cache"
    /\ LET key1 == DistKey(env.first, env.nodes)
           out1 == file_cache(<<>>, 0, env.first, env.nodes)
           fs   == Written(<<>>, key1, 0, out1)
       IN  result' = [op |-> "file_cache",
                      out |-> file_cache(fs, env.t, env.g, env.nodes)]
    /\ UNCHANGED <<solverVars, cacheVars, uiVars>>

\* the coordinate lists handed to get_graph_and_nodes: 2..MaxCoords
\* points, some of them equal or nearest to the same junction
Points == {P0, P1, <<0, 2>>, <<1, 2>>}

IslandFull ==
    [kind |-> "MultiGraph", nodes |-> IslandNodes,
     edges |-> SetToSeq(StreetChoices)]

LookupInputs ==
    {[op |-> "get_graph_and_nodes", coords |-> c, fetch |-> f, lookup |-> l] :
        c \in UNION {[1..n -> Points] : n \in 2..MaxCoords},
        f \in {FetchError, [ok |-> TRUE, g |-> IslandFull]},
        l \in Lookups}

ApplyGetGraphAndNodes ==
    /\ result.op = "none"
    /\ env.op = "get_graph_and_nodes"
    /\ \E o \in LookupOutcomes(env.coords, env.fetch, env.lookup) :
            result' = [op |-> "get_graph_and_nodes", out |-> o]
    /\ UNCHANGED <<solverVars, cacheVars, uiVars>>

\* the matrices a caller can hand to a solver: n rows, every cell c except
\* at most MaxCells cells (diagonal and lower triangle included) that hold
\* -1 or MaxW
Cells(n) == (0..(n - 1)) \X (0..(n - 1))

AnyMatrices(n) ==
    UNION {UNION {{[i \in 0..(n - 1) |-> [j \in 0..(n - 1) |->
                        IF <<i, j>> \in H THEN w[<<i, j>>] ELSE c]] :
                    w \in [H -> {-1, MaxW}]} :
                  H \in {X \in SUBSET Cells(n) : Cardinality(X) <= MaxCells}} :
           c \in 0..1}

\* a matrix whose last row lacks its last cell
Ragged(M) ==
    LET n == Size(M)
    IN  [M EXCEPT ![n - 1] = [j \in 0..(n - 2) |-> M[n - 1][j]]]

SquareInputs == UNION {AnyMatrices(n) : n \in 0..MaxN}

SolverInputs ==
    {[op |-> "christofides_tsp", D |-> M, library |-> l] :
        M \in SquareInputs \cup {Ragged(X) : X \in OffMatrices(2) \cup OffMatrices(3)},
        l \in Libraries}
    \cup
    {[op |-> o, D |-> M, library |-> "ok"] :
        o \in {"held_karp_tsp", "_nearest_neighbor_fallback"},
        M \in SquareInputs}

ApplyChristofides ==
    /\ result.op = "none"
    /\ env.op = "christofides_tsp"
    /\ \E r \in christofides_body(env.D, env.library) :
            result' = [op |-> "christofides_tsp", out |-> r]
    /\ UNCHANGED <<solverVars, cacheVars, uiVars>>

ApplyNearestNeighbor ==
    /\ result.op = "none"
    /\ env.op = "_nearest_neighbor_fallback"
    /\ result' = [op  |-> "_nearest_neighbor_fallback",
                  out |-> nearest_neighbor_fallback(env.D)]
    /\ UNCHANGED <<solverVars, cacheVars, uiVars>>

ApplyHeldKarp ==
    /\ result.op = "none"
    /\ env.op = "held_karp_tsp"
    /\ result' = [op |-> "held_karp_tsp", out |-> held_karp_tsp(env.D)]
    /\ UNCHANGED <<solverVars, cacheVars, uiVars>>

\* one pass of the retry loop: the coordinate, the nodes earlier
\* coordinates took, and nodes[idx] as looked up before the loop
RetryInputs ==
    UNION {{[op |-> "retry_loop", g |-> IslandFull, c |-> c, seen |-> sn,
             first |-> v] :
                sn \in SUBSET DOMAIN IslandNodes,
                v \in NearestNodes(IslandFull, c)} :
           c \in Points}

ApplyRetryLoop ==
    /\ result.op = "none"
    /\ env.op = "retry_loop"
    /\ \E r \in Retry(env.g, <<env.first>>, env.c, 1, env.seen, 0) :
            result' = [op |-> "retry_loop", out |-> r]
    /\ UNCHANGED <<solverVars, cacheVars, uiVars>>

\* ------------------------------------------------------------------------
\*  Worker.run: the route geometry, "for i in range(len(tour) - 1)"
\* ------------------------------------------------------------------------
Neighbours(g, v) ==
    {g.edges[k].v : k \in {m \in DOMAIN g.edges : g.edges[m].u = v}}
        \cup {g.edges[k].u : k \in {m \in DOMAIN g.edges : g.edges[m].v = v}}

\* the node sequences from s to t that repeat no node
RECURSIVE SimplePaths(_, _, _, _)
SimplePaths(g, s, t, visited) ==
    IF s = t THEN {<<t>>}
    ELSE UNION {{<<s>> \o q : q \in SimplePaths(g, v, t, visited \cup {v})} :
                    v \in Neighbours(g, s) \ visited}

\* the least "length" among the parallel edges between u and v
StepLength(g, u, v) ==
    Min({EdgeLength(g.edges[k]) :
            k \in {m \in DOMAIN g.edges :
                    SamePair(g.edges[m], [u |-> u, v |-> v])}})

RECURSIVE WalkLength(_, _)
WalkLength(g, path) ==
    IF Len(path) < 2 THEN 0
    ELSE StepLength(g, path[1], path[2]) + WalkLength(g, Tail(path))

\* nx.shortest_path(g, s, t, weight="length"): the paths of least length,
\* which one among equals being the library's choice; the empty set stands
\* for NetworkXNoPath
ShortestPaths(g, s, t) ==
    {q \in SimplePaths(g, s, t, {s}) : WalkLength(g, q) = ShortestLength(g, s, t)}

\* route.extend(pts): the endpoint shared with the previous segment twice
Extension_keepsEndpoint(i, pts) == pts

\* route.extend(pts if i == 0 else pts[1:])
Extension(i, pts) == IF i = 0 THEN pts ELSE Tail(pts)

\* the loop from position i of the tour on, `route` and the list of the
\* extensions made so far in hand: every way the loop can end, with
\* failed = TRUE when a pass raised what the inner handler does not absorb
RECURSIVE RouteLoop(_, _, _, _, _, _)
RouteLoop(g, nodes, tour, i, route, parts) ==
    IF i >= Len(tour) - 1
    THEN {[failed |-> FALSE, route |-> route, parts |-> parts]}
    ELSE LET s == nodes[tour[i + 1] + 1]
             t == nodes[tour[i + 2] + 1]
         IN  IF s \notin DOMAIN g.nodes \/ t \notin DOMAIN g.nodes
             THEN {[failed |-> TRUE, route |-> route, parts |-> parts]}
             ELSE LET found == ShortestPaths(g, s, t)
                      exts  == IF found = {}
                               THEN {Extension(i, <<NodePos(g, s), NodePos(g, t)>>)}
                               ELSE {Extension(i, [k \in DOMAIN q |-> NodePos(g, q[k])]) :
                                        q \in found}
                  IN  UNION {RouteLoop(g, nodes, tour, i + 1, route \o e,
                                       Append(parts, e)) : e \in exts}

\* the try block around the loop: "route = [self.coords[i] for i in tour]"
\* when the loop raised
route_geometry(g, nodes, tour, coords) ==
    {IF r.failed
     THEN [raised |-> "none", recovered |-> TRUE,
           route |-> [k \in DOMAIN tour |-> coords[tour[k] + 1]],
           parts |-> <<>>]
     ELSE [raised |-> "none", recovered |-> FALSE,
           route |-> r.route, parts |-> r.parts]
     : r \in RouteLoop(g, nodes, tour, 0, <<>>, <<>>)}

\* the closed tours over n nodes a solver can return
RECURSIVE Orders(_)
Orders(S) ==
    IF S = {} THEN {<<>>}
    ELSE UNION {{<<x>> \o q : q \in Orders(S \ {x})} : x \in S}

ClosedTours(n) == {<<0>> \o q \o <<0>> : q \in Orders(1..(n - 1))}

\* the graph, the assignment and the tour in the hands of Worker.run when
\* the route is generated; the assignment naming a missing node is what
\* the recovery path of the node lookup leaves
RouteInputs ==
    {[op |-> "route_geometry", g |-> g, nodes |-> a, tour |-> tr,
      coords |-> [k \in DOMAIN a |-> <<k, k>>]] :
        g \in IslandGraphs,
        a \in UNION {[1..n -> DOMAIN IslandNodes] : n \in 2..MaxAssign} \cup {<<11, 99>>},
        tr \in UNION {ClosedTours(n) : n \in 2..MaxAssign}}

ApplyRouteGeometry ==
    /\ result.op = "none"
    /\ env.op = "route_geometry"
    /\ \E r \in route_geometry(env.g, env.nodes, env.tour, env.coords) :
            result' = [op |-> "route_geometry", out |-> r]
    /\ UNCHANGED <<solverVars, cacheVars, uiVars>>

\* ------------------------------------------------------------------------
\*  Worker.run: "Select algorithm based on mode", the tour and its label
\* ------------------------------------------------------------------------
\* the mode test with n = len(self.coords), the depot among them
SelectSolver(mode, n) ==
    IF mode = 1 THEN "held_karp"
    ELSE IF mode = 2 THEN "christofides"
    ELSE IF n <= MAX_STOPS_EXACT_ALGORITHM THEN "held_karp"
    ELSE "christofides"

HeldKarpLabel == "Optimal (Held-Karp)"

ChristofidesLabel == "Christofides 1.5-approx"

\* the label follows the branch taken; `by` is the function whose loop
\* built the tour
solve_and_label(mode, M, library) ==
    IF SelectSolver(mode, Size(M)) = "held_karp"
    THEN {[label |-> HeldKarpLabel, by |-> "held_karp_tsp",
           tour |-> r.tour, dist |-> r.dist] : r \in {held_karp_tsp(M)}}
    ELSE {[label |-> ChristofidesLabel,
           by    |-> IF FailsOver(M, library) THEN "_nearest_neighbor_fallback"
                                              ELSE "christofides_tsp",
           tour  |-> r.tour, dist |-> r.dist] :
            r \in christofides_body(M, library)}

\* the matrix distance_matrix returned, the mode of the task, the library
LabelInputs ==
    {[op |-> "solve_and_label", mode |-> m, D |-> M, library |-> l] :
        m \in 0..2, M \in OffMatrices(2) \cup OffMatrices(3), l \in Libraries}

ApplySolveAndLabel ==
    /\ result.op = "none"
    /\ env.op = "solve_and_label"
    /\ \E r \in solve_and_label(env.mode, env.D, env.library) :
            result' = [op |-> "solve_and_label", out |-> r]
    /\ UNCHANGED <<solverVars, cacheVars, uiVars>>

\* "g, nodes = get_graph_and_nodes(self.coords)" followed by
\* "D = distance_matrix(g, nodes)", the caches left aside
MeasureInputs ==
    {[e EXCEPT !.op = "resolve_and_measure"] : e \in LookupInputs}

ApplyResolveAndMeasure ==
    /\ result.op = "none"
    /\ env.op = "resolve_and_measure"
    /\ \E o \in LookupOutcomes(env.coords, env.fetch, env.lookup) :
            result' = [op  |-> "resolve_and_measure",
                       out |-> o,
                       D   |-> IF o.raised = "none"
                               THEN distance_matrix(o.value.g, o.value.nodes)
                               ELSE [raised |-> o.raised, value |-> <<>>]]
    /\ UNCHANGED <<solverVars, cacheVars, uiVars>>

FunctionInit ==
    /\ \/ env \in WrapperInputs
       \/ env \in {e \in FileCacheInputs :
                        /\ GraphStr(e.first) = GraphStr(e.g)
                        /\ DOMAIN e.first.nodes = DOMAIN e.g.nodes}
       \/ env \in LabelInputs
       \/ env \in {e \in RouteInputs : Len(e.tour) = Len(e.nodes) + 1}
       \/ env \in MeasureInputs
       \/ env \in RetryInputs
       \/ env \in SolverInputs
       \/ env \in LookupInputs
       \/ env \in RoundTripInputs
       \/ env \in MatrixInputs
    /\ CacheInit
    /\ D = <<>>
    /\ solved = NoResult
    /\ UiInit

FunctionNext ==
    \/ ApplyOfflineCache
    \/ ApplyFileCache
    \/ ApplyRoundTrip
    \/ ApplyGetGraphAndNodes
    \/ ApplyRetryLoop
    \/ ApplySolveAndLabel
    \/ ApplyRouteGeometry
    \/ ApplyResolveAndMeasure
    \/ ApplyDistanceMatrix
    \/ ApplyChristofides
    \/ ApplyNearestNeighbor
    \/ ApplyHeldKarp

FunctionSpec == FunctionInit /\ [][FunctionNext]_vars

\* ------------------------------------------------------------------------
\*  Worker.run, one action per stage; s is the attribute holding the thread
\* ------------------------------------------------------------------------
\* finished.emit is a queued connection: the payload waits for the GUI thread
Queue(s, error) == Append(pending, [slot |-> s, error |-> error])

\* self.progress.emit(10, ...)
WorkerBegin ==
    \E s \in Slots :
        /\ tasks[s].pc = "start"
        /\ tasks' = [tasks EXCEPT
                        ![s] = [Emit(@, <<Progress(10)>>) EXCEPT !.pc = "graph"]]
        /\ UNCHANGED <<rows, alg, is_planning, enabled, pending,
                       solverVars, cacheVars, fnVars>>

\* the `return` that ends both except blocks
ErrorReturn_fallsThrough(t) == [t EXCEPT !.pc = "finish"]

ErrorReturn(t) == [t EXCEPT !.pc = "returned"]

\* get_graph_and_nodes(self.coords) in its try block: either it returns and
\* 40 is reported, or it raises and 0 and the error payload are emitted
WorkerGraph ==
    \E s \in Slots, raised \in BOOLEAN :
        /\ tasks[s].pc = "graph"
        /\ IF raised
           THEN /\ tasks' = [tasks EXCEPT ![s] = ErrorReturn(
                                Emit(@, <<Progress(0), Finished(TRUE)>>))]
                /\ pending' = Queue(s, TRUE)
           ELSE /\ tasks' = [tasks EXCEPT ![s] =
                                [Emit(@, <<Progress(40)>>) EXCEPT
                                    !.pc = "distance"]]
                /\ UNCHANGED pending
        /\ UNCHANGED <<rows, alg, is_planning, enabled, solverVars, cacheVars, fnVars>>

\* distance_matrix(g, nodes) in its try block, then progress.emit(60, ...)
WorkerDistance ==
    \E s \in Slots, raised \in BOOLEAN :
        /\ tasks[s].pc = "distance"
        /\ IF raised
           THEN /\ tasks' = [tasks EXCEPT ![s] = ErrorReturn(
                                Emit(@, <<Progress(0), Finished(TRUE)>>))]
                /\ pending' = Queue(s, TRUE)
           ELSE /\ tasks' = [tasks EXCEPT ![s] =
                                [Emit(@, <<Progress(60)>>) EXCEPT
                                    !.pc = "solve"]]
                /\ UNCHANGED pending
        /\ UNCHANGED <<rows, alg, is_planning, enabled, solverVars, cacheVars, fnVars>>

\* held_karp_tsp takes min() of an empty sequence and christofides_tsp
\* raises "Need at least 2 nodes" when the matrix has fewer than 2 rows
SolverRaises(solver, n) == n < 2

\* both solvers return a closed tour over all n nodes
TourLen(n) == n + 1

\* progress.emit(70, ...) and the solver call, which no try block encloses
WorkerSolve ==
    \E s \in Slots :
        LET t == tasks[s]
            solver == SelectSolver(t.mode, t.n)
            u == [Emit(t, <<Progress(70)>>) EXCEPT !.solver = solver]
        IN  /\ t.pc = "solve"
            /\ tasks' = [tasks EXCEPT ![s] =
                            IF SolverRaises(solver, t.n)
                            THEN [u EXCEPT !.pc = "raised"]
                            ELSE [u EXCEPT !.pc = "route",
                                           !.tour_len = TourLen(t.n)]]
            /\ UNCHANGED <<rows, alg, is_planning, enabled, pending,
                           solverVars, cacheVars, fnVars>>

\* 80 + int((i / (len(tour) - 2)) * 15) if len(tour) > 2 else 95
progress_value_unscaled(i, tour_len) == 80 + 15 * i

progress_value(i, tour_len) ==
    IF tour_len > 2 THEN 80 + ((15 * i) \div (tour_len - 2)) ELSE 95

\* one pass of `for i in range(len(tour) - 1)`: the segment's progress, then
\* its path; an exception the inner handler does not absorb ends the loop
WorkerRouteSegment ==
    \E s \in Slots, failed \in BOOLEAN :
        LET t == tasks[s]
            u == Emit(t, <<Progress(progress_value(t.i, t.tour_len))>>)
        IN  /\ t.pc = "route"
            /\ tasks' = [tasks EXCEPT ![s] =
                            IF failed \/ t.i + 1 = t.tour_len - 1
                            THEN [u EXCEPT !.pc = "finish"]
                            ELSE [u EXCEPT !.i = t.i + 1]]
            /\ UNCHANGED <<rows, alg, is_planning, enabled, pending,
                           solverVars, cacheVars, fnVars>>

\* progress.emit(100, ...) and finished.emit(result)
WorkerFinish ==
    \E s \in Slots :
        /\ tasks[s].pc = "finish"
        /\ tasks' = [tasks EXCEPT ![s] =
                        [Emit(@, <<Progress(100), Finished(FALSE)>>) EXCEPT
                            !.pc = "returned"]]
        /\ pending' = Queue(s, FALSE)
        /\ UNCHANGED <<rows, alg, is_planning, enabled, solverVars, cacheVars, fnVars>>

\* ------------------------------------------------------------------------
\*  PlannerUI handlers, each run to completion on the GUI thread
\* ------------------------------------------------------------------------
\* _set_ui_planning_state: the three buttons are enabled iff not planning
set_ui_planning_state_leavesEnabled(planning) == TRUE

set_ui_planning_state(planning) == ~planning

\* _get_coordinates: [HQ_COORD] + one pair per table row, or None when a
\* cell does not parse
get_coordinates(parsed) == IF parsed THEN rows + 1 ELSE 0

\* btn_add, never disabled
add_delivery_point ==
    /\ rows < MaxRows
    /\ rows' = rows + 1
    /\ UNCHANGED <<alg, is_planning, enabled, tasks, pending,
                   solverVars, cacheVars, fnVars>>

\* btn_del, never disabled: the selected rows, or the last row, are removed
remove_delivery_point ==
    /\ \E k \in 1..rows : rows' = rows - k
    /\ UNCHANGED <<alg, is_planning, enabled, tasks, pending,
                   solverVars, cacheVars, fnVars>>

\* edit_stops_btn, the dialog accepted with a new count
open_stops_editor ==
    /\ enabled
    /\ ~is_planning
    /\ \E target \in 0..MaxRows : target # rows /\ rows' = target
    /\ UNCHANGED <<alg, is_planning, enabled, tasks, pending,
                   solverVars, cacheVars, fnVars>>

\* the algorithm combo box
SelectAlgorithm ==
    /\ \E index \in 0..2 : index # alg /\ alg' = index
    /\ UNCHANGED <<rows, is_planning, enabled, tasks, pending,
                   solverVars, cacheVars, fnVars>>

\* btn_plan.clicked
start_route_planning ==
    /\ enabled
    /\ \E parsed \in BOOLEAN :
        LET coords == get_coordinates(parsed)
        IN  IF coords = 0
            THEN UNCHANGED <<is_planning, enabled, tasks>>
            ELSE /\ is_planning' = TRUE
                 /\ enabled' = set_ui_planning_state(TRUE)
                 /\ tasks' = [tasks EXCEPT !["worker"] = Worker(coords, alg)]
    /\ UNCHANGED <<rows, alg, pending, solverVars, cacheVars, fnVars>>

\* btn_compare.clicked
start_algorithms_comparison ==
    /\ enabled
    /\ \E parsed \in BOOLEAN :
        LET coords == get_coordinates(parsed)
        IN  IF coords = 0 \/ is_planning
            THEN UNCHANGED <<is_planning, enabled, tasks>>
            ELSE /\ is_planning' = TRUE
                 /\ enabled' = set_ui_planning_state(TRUE)
                 /\ tasks' = [tasks EXCEPT !["hk_worker"] = Worker(coords, 1)]
    /\ UNCHANGED <<rows, alg, pending, solverVars, cacheVars, fnVars>>

\* worker.finished -> _handle_planning_results
handle_planning_results ==
    /\ pending # <<>>
    /\ Head(pending).slot = "worker"
    /\ pending' = Tail(pending)
    /\ enabled' = set_ui_planning_state(FALSE)
    /\ is_planning' = FALSE
    /\ tasks' = [tasks EXCEPT !["worker"] = NoThread]
    /\ UNCHANGED <<rows, alg, solverVars, cacheVars, fnVars>>

\* hk_worker.finished -> _handle_held_karp_results; _cleanup_comparison on
\* an error payload or unreadable coordinates, else the Christofides Worker
handle_held_karp_results ==
    /\ pending # <<>>
    /\ Head(pending).slot = "hk_worker"
    /\ pending' = Tail(pending)
    /\ \E parsed \in BOOLEAN :
        LET coords == get_coordinates(parsed)
        IN  IF Head(pending).error \/ coords = 0
            THEN /\ enabled' = set_ui_planning_state(FALSE)
                 /\ is_planning' = FALSE
                 /\ tasks' = [tasks EXCEPT !["hk_worker"] = NoThread]
            ELSE /\ tasks' = [tasks EXCEPT !["hk_worker"] = NoThread,
                                           !["ch_worker"] = Worker(coords, 2)]
                 /\ UNCHANGED <<is_planning, enabled>>
    /\ UNCHANGED <<rows, alg, solverVars, cacheVars, fnVars>>

\* ch_worker.finished -> _handle_comparison_results, _cleanup_comparison first
handle_comparison_results ==
    /\ pending # <<>>
    /\ Head(pending).slot = "ch_worker"
    /\ pending' = Tail(pending)
    /\ enabled' = set_ui_planning_state(FALSE)
    /\ is_planning' = FALSE
    /\ tasks' = [tasks EXCEPT !["ch_worker"] = NoThread]
    /\ UNCHANGED <<rows, alg, solverVars, cacheVars, fnVars>>

Init ==
    /\ UiInit
    /\ CacheInit
    /\ env = IdleEnv
    /\ D = <<>>
    /\ solved = NoResult

WorkerStep ==
    \/ WorkerBegin
    \/ WorkerGraph
    \/ WorkerDistance
    \/ WorkerSolve
    \/ WorkerRouteSegment
    \/ WorkerFinish

Next ==
    \/ add_delivery_point
    \/ remove_delivery_point
    \/ open_stops_editor
    \/ SelectAlgorithm
    \/ start_route_planning
    \/ start_algorithms_comparison
    \/ handle_planning_results
    \/ handle_held_karp_results
    \/ handle_comparison_results
    \/ WorkerBegin
    \/ WorkerGraph
    \/ WorkerDistance
    \/ WorkerSolve
    \/ WorkerRouteSegment
    \/ WorkerFinish

Spec == Init /\ [][Next]_vars

\* a started QThread keeps being scheduled until run() returns or raises
FairSpec == Spec /\ WF_vars(WorkerStep)

\* ------------------------------------------------------------------------
\*  Properties of the solvers
\* ------------------------------------------------------------------------
\* a closed tour over n nodes: length n+1, from 0 to 0, every other index
\* exactly once
ValidTour(tour, n) ==
    /\ Len(tour) = n + 1
    /\ tour[1] = 0
    /\ tour[n + 1] = 0
    /\ \A v \in 1..(n - 1) : Cardinality({i \in 1..(n + 1) : tour[i] = v}) = 1

RECURSIVE Perms(_)
Perms(S) ==
    IF S = {} THEN {<<>>}
    ELSE UNION {{<<x>> \o p : p \in Perms(S \ {x})} : x \in S}

\* brute force: every closed tour from 0 over all the nodes
AllTours(n) == {<<0>> \o p \o <<0>> : p \in Perms(1..(n - 1))}

OptimalCost(M) == Min({TourCost(M, t) : t \in AllTours(Size(M))})

\* C1: on a square non-negative matrix with n >= 2 rows held_karp_tsp
\* returns a closed tour from 0 over every index exactly once, and its
\* distance is at most the cost of every such tour (brute force)
C1_HeldKarpOptimal ==
    solved.alg = "held_karp" =>
        /\ solved.raised = "none"
        /\ ValidTour(solved.tour, Size(D))
        /\ \A t \in AllTours(Size(D)) : solved.dist <= TourCost(D, t)

\* a 4-node run whose optimum is strictly below some other tour's cost
C1_Witness ==
    /\ solved.alg = "held_karp"
    /\ Size(D) = 4
    /\ \E t \in AllTours(4) : solved.dist < TourCost(D, t)

Metric(M) ==
    \A i, j, k \in DOMAIN M :
        /\ M[i][j] = M[j][i]
        /\ M[i][i] = 0
        /\ M[i][k] <= M[i][j] + M[j][k]

\* C2: on a metric matrix the distance christofides_tsp returns is at most
\* 1.5 times the optimal tour distance
C2_ChristofidesRatio ==
    (solved.alg = "christofides" /\ Metric(D)) =>
        /\ solved.raised = "none"
        /\ 2 * solved.dist <= 3 * OptimalCost(D)

\* a metric 4-node run on which christofides_tsp is not optimal
C2_Witness ==
    /\ solved.alg = "christofides"
    /\ Metric(D)
    /\ Size(D) = 4
    /\ solved.dist > OptimalCost(D)

\* ------------------------------------------------------------------------
\*  Properties of the caches
\* ------------------------------------------------------------------------
EdgeCount(edges, e) ==
    Cardinality({k \in DOMAIN edges :
                    SamePair(edges[k], e) /\ edges[k].attrs = e.attrs})

\* the same nodes with the same attributes, the same edges with the same
\* attributes (parallel edges counted), whatever the graph class
SameGraph(g, h) ==
    /\ g.nodes = h.nodes
    /\ Len(g.edges) = Len(h.edges)
    /\ \A k \in DOMAIN g.edges :
            EdgeCount(g.edges, g.edges[k]) = EdgeCount(h.edges, g.edges[k])

\* the call found the entry an earlier call with the same arguments stored,
\* within the TTL of that entry
FoundStoredInTTL(call) ==
    /\ call.called
    /\ call.found.present
    /\ call.found.intact
    /\ call.t - call.found.mtime < CACHE_TIMEOUT

\* C8: a second call with the arguments of a call that computed and stored
\* its result, made within the TTL, does not run the wrapped computation
\* again and returns the value the first call returned, for
\* get_graph_and_nodes under offline_cache and for distance_matrix under
\* file_cache
C8_CacheIdempotent ==
    /\ FoundStoredInTTL(lastGraph) =>
            /\ ~lastGraph.invoked
            /\ lastGraph.raised = "none"
            /\ lastGraph.value.nodes = lastGraph.found.value.nodes
            /\ SameGraph(lastGraph.value.g, lastGraph.found.value.g)
    /\ FoundStoredInTTL(lastDist) =>
            /\ ~lastDist.invoked
            /\ lastDist.raised = "none"
            /\ lastDist.value = lastDist.found.value

\* the call tried to read an entry that does not give a value back
ReadCorruptGraphEntry ==
    /\ lastGraph.called
    /\ lastGraph.found.present
    /\ ~lastGraph.found.intact
    /\ \/ lastGraph.t - lastGraph.found.mtime < CACHE_TIMEOUT
       \/ (~lastGraph.internet /\ ~require_internet)

ReadCorruptDistEntry ==
    /\ lastDist.called
    /\ lastDist.found.present
    /\ lastDist.found.content.fmt = "malformed"
    /\ lastDist.t - lastDist.found.mtime < CACHE_TIMEOUT

\* C9: an entry that is malformed JSON, or for get_graph_and_nodes is not a
\* [graph, nodes] pair, is treated as a miss: reading it raises nothing to
\* the caller and the call takes the miss path, which runs the wrapped
\* function (under offline_cache unless the probe reports no network, where
\* a miss gives the synthetic graph)
C9_CorruptIsMiss ==
    /\ ReadCorruptGraphEntry =>
            /\ lastGraph.how # "load_raised"
            /\ lastGraph.how # "hit"
            /\ (lastGraph.internet \/ ~require_internet) => lastGraph.invoked
    /\ ReadCorruptDistEntry =>
            /\ lastDist.how = "computed"
            /\ lastDist.invoked

\* the call of distance_matrix left its result as the entry
ResultReplacedEntry ==
    lastDist.raised = "none" =>
        /\ lastDist.left.present
        /\ lastDist.left.mtime = lastDist.t
        /\ lastDist.left.content = [fmt |-> "json", root |-> lastDist.value]

DistEntryInTTL ==
    /\ lastDist.found.present
    /\ lastDist.t - lastDist.found.mtime < CACHE_TIMEOUT

\* C10 as claimed: file_cache serves the entry without running the function
\* exactly when the entry exists and its age is below the timeout;
\* otherwise the function runs and its result replaces the entry
C10_ServedIffFresh ==
    lastDist.called =>
        /\ (lastDist.how = "hit" /\ ~lastDist.invoked) <=> DistEntryInTTL
        /\ ~DistEntryInTTL => (lastDist.invoked /\ ResultReplacedEntry)

\* C10 as amended: the entry is served without running the function
\* exactly when it exists, its age is below the timeout and the file loads
\* as JSON; in every other case the function runs and its result replaces
\* the entry
C10_ServedIffFreshAndLoadable ==
    lastDist.called =>
        LET loadable == DistEntryInTTL /\ lastDist.found.content.fmt = "json"
        IN  /\ (lastDist.how = "hit" /\ ~lastDist.invoked) <=> loadable
            /\ loadable => lastDist.value = lastDist.found.content.root
            /\ ~loadable => (lastDist.invoked /\ ResultReplacedEntry)

\* a run whose distance_matrix call was served from a fresh entry, after
\* a run that found the entry too old and replaced it
C10_Witness ==
    /\ lastDist.called
    /\ lastDist.how = "hit"
    /\ lastDist.found.mtime > 0

\* ------------------------------------------------------------------------
\*  Properties of the Worker and the PlannerUI
\* ------------------------------------------------------------------------
IsProgress(x) == x.signal = "progress"

IsFinished(x) == x.signal = "finished"

\* the progress signals and the terminal signals a task has emitted so far
ProgressOf(t) == SelectSeq(t.emitted, IsProgress)

TerminalsOf(t) == SelectSeq(t.emitted, IsFinished)

NonDecreasing(q) ==
    \A k \in 1..(Len(q) - 1) : q[k].percent <= q[k + 1].percent

InRange(q) == \A k \in 1..Len(q) : q[k].percent \in 0..100

Front(q) == SubSeq(q, 1, Len(q) - 1)

Running(s) == tasks[s].pc \notin {"none", "returned", "raised"}

\* C3: in auto mode the exact solver runs iff the number of non-depot stops
\* (coordinates submitted minus the depot) is <= the threshold, else the
\* approximate solver; mode 1 and mode 2 run the chosen solver regardless.
C3_AutoExactIffStopsWithinThreshold ==
    \A s \in Slots :
        LET t == tasks[s]
            stops == t.n - 1
        IN  t.solver # "none" =>
                /\ t.mode = 0 => (t.solver = "held_karp"
                                    <=> stops <= MAX_STOPS_EXACT_ALGORITHM)
                /\ t.mode = 0 => (t.solver = "christofides"
                                    <=> stops > MAX_STOPS_EXACT_ALGORITHM)
                /\ t.mode = 1 => t.solver = "held_karp"
                /\ t.mode = 2 => t.solver = "christofides"

C5_EveryTaskEmitsTerminal ==
    \A s \in Slots :
        [](tasks[s].pc = "start" => <>(TerminalsOf(tasks[s]) # <<>>))

\* C6: a task emits at most one terminal signal per run and no progress
\* signal after it (the terminal signal is the last signal emitted).
C6_SingleTerminalLast ==
    \A s \in Slots :
        LET t == tasks[s]
        IN  /\ Len(TerminalsOf(t)) <= 1
            /\ Len(TerminalsOf(t)) = 1 =>
                    IsFinished(t.emitted[Len(t.emitted)])

C6_Witness ==
    \E s \in Slots :
        /\ tasks[s].pc = "returned"
        /\ Len(ProgressOf(tasks[s])) >= 2
        /\ Len(TerminalsOf(tasks[s])) = 1

\* the Christofides Worker of a comparison is started in this step
StartsChWorker ==
    /\ tasks'["ch_worker"].pc = "start"
    /\ tasks["ch_worker"].pc # "start"

\* C7: at most one planning task runs at any time; in a comparison the
\* approximate-solver task is started only after the exact-solver task has
\* emitted its terminal signal, and never when that signal carried an error.
C7_OneTaskAtATime ==
    /\ [](Cardinality({s \in Slots : Running(s)}) <= 1)
    /\ [][StartsChWorker =>
            /\ TerminalsOf(tasks["hk_worker"]) = <<Finished(FALSE)>>
            /\ ~Running("hk_worker")]_vars

C7_Witness ==
    /\ Running("ch_worker")
    /\ tasks["ch_worker"].mode = 2
    /\ ~Running("hk_worker")
    /\ is_planning

\* ------------------------------------------------------------------------
\*  Properties of the functions applied to drawn inputs
\* ------------------------------------------------------------------------
WrapperCalled == result.op = "offline_cache"

EntryOf(e) == Found(e.fs, GraphKey(e.coords))

\* the call found an entry whose age is >= timeout
ExpiredEntryFound ==
    /\ WrapperCalled
    /\ EntryOf(env).present
    /\ env.t - EntryOf(env).mtime >= CACHE_TIMEOUT

\* the stored document parses and unpacks into [graph, nodes]
Loadable(content) == content.fmt = "json" /\ Len(content.root) = 2

\* C11 as stated: offline_cache serves an existing entry of age >= timeout
\* if and only if the probe reports no network and require_internet is
\* false; in every other case an expired entry is not served.
C11_ExpiredServedIffOffline ==
    ExpiredEntryFound =>
        (result.out.how = "hit" <=> (~env.internet /\ ~env.required))

\* C11 amended: an existing entry of age >= timeout is served if and only
\* if the probe reports no network, require_internet is false and the entry
\* loads as a [graph, nodes] document.
C11_ExpiredServedIffOfflineAndLoadable ==
    ExpiredEntryFound =>
        (result.out.how = "hit"
            <=> (~env.internet /\ ~env.required
                    /\ Loadable(EntryOf(env).content)))

C11_Witness ==
    /\ ExpiredEntryFound
    /\ ~env.internet
    /\ ~env.required
    /\ result.out.how = "hit"
    /\ result.out.value.nodes = <<11, 12>>

\* C12: for every graph g network resolution can produce, parallel edges
\* and geometry- and set-valued attributes included,
\* serializable_to_networkx(networkx_to_serializable(g)) has the node set,
\* the edges and the node and edge attribute values of g.
C12_RoundTripPreservesGraph ==
    result.op = "round_trip" =>
        /\ DOMAIN result.g.nodes = DOMAIN env.g.nodes
        /\ \A v \in DOMAIN env.g.nodes : result.g.nodes[v] = env.g.nodes[v]
        /\ Len(result.g.edges) = Len(env.g.edges)
        /\ \A k \in DOMAIN env.g.edges :
                EdgeCount(result.g.edges, env.g.edges[k])
                    = EdgeCount(env.g.edges, env.g.edges[k])

MatrixCalled == result.op = "distance_matrix"

\* every entry of the node list is a node of the graph
AssignmentInGraph == \A k \in DOMAIN env.nodes : env.nodes[k] \in DOMAIN env.g.nodes

\* C15: for a graph with non-negative edge lengths and a node assignment of
\* length n, distance_matrix returns an n x n matrix with D[i][j] = D[j][i],
\* D[i][j] >= 0 and D[i][i] = 0, in the all-pairs branch (n <= 20) and in
\* the one-source-at-a-time branch (n > 20).
C15_MatrixSymmetricNonNegative ==
    (MatrixCalled /\ AssignmentInGraph) =>
        LET M   == result.out.value
            idx == 0..(Len(env.nodes) - 1)
        IN  /\ result.out.raised = "none"
            /\ DOMAIN M = idx
            /\ \A i \in idx :
                /\ DOMAIN M[i] = idx
                /\ M[i][i] = 0
                /\ \A j \in idx : M[i][j] = M[j][i] /\ M[i][j] >= 0

C15_Witness ==
    /\ MatrixCalled
    /\ Len(env.nodes) > ALL_PAIRS_LIMIT
    /\ result.out.raised = "none"
    /\ result.out.value[0][1] = 4
    /\ result.out.value[1][0] = 4

\* the nodes joined to s by a path of the graph
JoinedTo(g, s) ==
    Reach({<<g.edges[k].u, g.edges[k].v>> : k \in DOMAIN g.edges}, {s})

\* C16: a pair of the assignment with no path between its nodes, the nodes
\* lying at distinct positions, gets the haversine distance in metres,
\* which is > 0, and every pair that has a path gets its shortest-path
\* distance.
C16_NoPathGetsHaversine ==
    (MatrixCalled /\ AssignmentInGraph) =>
        \A i, j \in 0..(Len(env.nodes) - 1) :
            LET s == env.nodes[i + 1]
                t == env.nodes[j + 1]
                M == result.out.value
            IN  /\ (s # t /\ t \notin JoinedTo(env.g, s)
                        /\ NodePos(env.g, s) # NodePos(env.g, t)) =>
                        /\ M[i][j] = HaversineMetres(NodePos(env.g, s),
                                                     NodePos(env.g, t))
                        /\ M[i][j] > 0
                /\ (s # t /\ t \in JoinedTo(env.g, s)) =>
                        M[i][j] = ShortestLength(env.g, s, t)

C16_Witness ==
    /\ MatrixCalled
    /\ env.nodes = <<11, 12, 13>>
    /\ Len(env.g.edges) = 1
    /\ result.out.value[0][1] = 3
    /\ result.out.value[0][2] = 2000
    /\ result.out.value[1][2] > 2000

LookupCalled == result.op = "get_graph_and_nodes"

\* C13: when the escape of the jitter loop is taken for no coordinate, the
\* node identifiers get_graph_and_nodes returns are pairwise distinct.
C13_NoEscapeDistinctNodes ==
    (LookupCalled /\ result.out.raised = "none" /\ ~result.out.escaped) =>
        \A i, j \in DOMAIN result.out.value.nodes :
            i # j => result.out.value.nodes[i] # result.out.value.nodes[j]

\* three coordinates, the first two equal, resolved to three junctions
C13_Witness ==
    /\ LookupCalled
    /\ env.fetch.ok
    /\ env.lookup = "ok"
    /\ Len(env.coords) = 3
    /\ env.coords[1] = env.coords[2]
    /\ ~result.out.escaped
    /\ Cardinality({result.out.value.nodes[k] : k \in 1..3}) = 3

\* the data service is unreachable (the probe reports offline) or raises
ServiceFails == ~env.internet \/ ~env.fetch.ok

\* a call of get_graph_and_nodes as decorated, the service failing
FailingFetch == WrapperCalled /\ env.required /\ ServiceFails

\* g is the complete graph on 0..n-1, node i at coordinate i, and a the
\* assignment [0, ..., n-1]
IsCompleteOver(g, a, coords) ==
    LET n == Len(coords)
    IN  /\ DOMAIN g.nodes = 0..(n - 1)
        /\ \A i \in 0..(n - 1) :
                g.nodes[i].y = coords[i + 1][1] /\ g.nodes[i].x = coords[i + 1][2]
        /\ {{g.edges[k].u, g.edges[k].v} : k \in DOMAIN g.edges}
                = {{i, j} : i, j \in 0..(n - 1)} \ {{i} : i \in 0..(n - 1)}
        /\ Len(g.edges) = (n * (n - 1)) \div 2
        /\ a = [k \in 1..n |-> k - 1]

ReturnsCompleteGraph ==
    /\ result.out.raised = "none"
    /\ IsCompleteOver(result.out.value.g, result.out.value.nodes, env.coords)

\* the cache holds an entry for the coordinates younger than the timeout
FreshEntryFound ==
    /\ EntryOf(env).present
    /\ env.t - EntryOf(env).mtime < CACHE_TIMEOUT

C14_WitnessOffline ==
    /\ FailingFetch
    /\ Len(env.coords) = 3
    /\ ~env.internet
    /\ result.out.how = "fallback"
    /\ ReturnsCompleteGraph

ChristofidesCalled == result.op = "christofides_tsp"

IsSquare(M) == \A i \in DOMAIN M : DOMAIN M[i] = DOMAIN M

HasNegative(M) == \E i \in DOMAIN M : \E j \in DOMAIN M[i] : M[i][j] < 0

\* C17: the approximate solver answers a non-square matrix, a matrix with a
\* negative distance and a matrix with fewer than 2 nodes with a validation
\* error, and with no tour.
C17_MalformedInputRejected ==
    (ChristofidesCalled
        /\ (Size(env.D) < 2 \/ ~IsSquare(env.D) \/ HasNegative(env.D))) =>
        result.out.raised = "ValueError"

\* the part of C17 the program keeps: too few nodes and a non-square matrix
\* are rejected
C17_ShapeRejected ==
    (ChristofidesCalled /\ (Size(env.D) < 2 \/ ~IsSquare(env.D))) =>
        result.out.raised = "ValueError"

\* tour has n + 1 entries, starts and ends at 0, and holds each of
\* 1..n-1 once
IsClosedTour(tour, n) ==
    /\ Len(tour) = n + 1
    /\ tour[1] = 0
    /\ tour[n + 1] = 0
    /\ \A v \in 1..(n - 1) :
            Cardinality({k \in 2..n : tour[k] = v}) = 1

\* the nearest-neighbour walk, written apart from the solver's loop: from
\* the last node of the walk to the least-numbered unvisited node at least
\* distance
RECURSIVE GreedyWalk(_, _)
GreedyWalk(M, walk) ==
    LET n    == Size(M)
        cur  == walk[Len(walk)]
        left == (1..(n - 1)) \ Range(walk)
    IN  IF left = {} THEN Append(walk, 0)
        ELSE GreedyWalk(M, Append(walk,
                CHOOSE x \in left :
                    \A y \in left : M[cur][x] < M[cur][y]
                                    \/ (M[cur][x] = M[cur][y] /\ x <= y)))

\* sum of D[tour[i]][tour[i+1]] over the consecutive positions of tour
RECURSIVE LegSum(_, _, _)
LegSum(M, tour, k) ==
    IF k <= 1 THEN 0
    ELSE LegSum(M, tour, k - 1) + M[tour[k - 1]][tour[k]]

ValidMatrix(M) == Size(M) >= 2 /\ IsSquare(M) /\ ~HasNegative(M)

NearestCalled == result.op = "_nearest_neighbor_fallback"

\* C19: on every square matrix with n >= 1 _nearest_neighbor_fallback
\* returns a tour of n + 1 entries with tour[0] = tour[n] = 0 in which each
\* of 1..n-1 appears once.
C19_FallbackTourValid ==
    (NearestCalled /\ Size(env.D) >= 1 /\ IsSquare(env.D)) =>
        /\ result.out.raised = "none"
        /\ IsClosedTour(result.out.tour, Size(env.D))

\* the all-zero matrix on four nodes
C19_Witness ==
    /\ NearestCalled
    /\ Size(env.D) = 4
    /\ \A i, j \in 0..3 : env.D[i][j] = 0
    /\ result.out.tour = <<0, 1, 2, 3, 0>>

SolverCalled ==
    result.op \in {"held_karp_tsp", "christofides_tsp", "_nearest_neighbor_fallback"}

\* C20: for held_karp_tsp, christofides_tsp and _nearest_neighbor_fallback
\* and every valid matrix D the distance returned is the sum of
\* D[tour[i]][tour[i+1]] over the consecutive positions of the tour
\* returned.
C20_DistanceIsSumOfLegs ==
    (SolverCalled /\ ValidMatrix(env.D)) =>
        /\ result.out.raised = "none"
        /\ result.out.dist = LegSum(env.D, result.out.tour, Len(result.out.tour))

\* an asymmetric matrix whose tour costs differ by direction
C20_Witness ==
    /\ result.op = "held_karp_tsp"
    /\ ValidMatrix(env.D)
    /\ Size(env.D) = 4
    /\ env.D[1][2] # env.D[2][1]
    /\ result.out.dist > 0
    /\ result.out.dist = LegSum(env.D, result.out.tour, 5)

RetryCalled == result.op = "retry_loop"

MeasureCalled == result.op = "resolve_and_measure"

\* C22: when the escape gives coordinate i a node an earlier coordinate j
\* already has, distance_matrix over the returned graph and assignment has
\* D[i][j] > 0.
C22_EscapedDuplicateApart ==
    (MeasureCalled /\ result.out.raised = "none" /\ result.out.escaped) =>
        \A i, j \in DOMAIN result.out.value.nodes :
            (j < i /\ result.out.value.nodes[i] = result.out.value.nodes[j]) =>
                /\ result.D.raised = "none"
                /\ result.D.value[i - 1][j - 1] > 0

\* C26: over the synthetic complete graph distance_matrix gives, for every
\* pair i # j, the haversine distance in metres between coordinate i and
\* coordinate j.
C26_FallbackMatrixIsHaversine ==
    (MeasureCalled /\ ~env.fetch.ok) =>
        /\ result.D.raised = "none"
        /\ \A i, j \in 0..(Len(env.coords) - 1) :
                i # j => result.D.value[i][j]
                            = HaversineMetres(env.coords[i + 1], env.coords[j + 1])

\* C28: on every return path of get_graph_and_nodes the assignment has one
\* entry per input coordinate and every entry is a node of the returned
\* graph.
C28_AssignmentCoversCoordinates ==
    (LookupCalled /\ result.out.raised = "none") =>
        /\ Len(result.out.value.nodes) = Len(env.coords)
        /\ \A k \in DOMAIN result.out.value.nodes :
                result.out.value.nodes[k] \in DOMAIN result.out.value.g.nodes

RouteCalled == result.op = "route_geometry"

\* the points of a walk of the graph from s to t of least length
IsShortestWalk(g, s, t, pts) ==
    \E q \in UNION {[1..m -> DOMAIN g.nodes] : m \in 1..Cardinality(DOMAIN g.nodes)} :
        /\ q[1] = s
        /\ q[Len(q)] = t
        /\ \A k \in 1..(Len(q) - 1) :
                \E m \in DOMAIN g.edges :
                    {g.edges[m].u, g.edges[m].v} = {q[k], q[k + 1]}
        /\ WalkLength(g, q) = ShortestLength(g, s, t)
        /\ pts = [k \in DOMAIN q |-> NodePos(g, q[k])]

RECURSIVE Flatten(_)
Flatten(parts) ==
    IF parts = <<>> THEN <<>> ELSE Head(parts) \o Flatten(Tail(parts))

\* C23: route-geometry reconstruction raises nothing; for every tour edge
\* with a path the path's points are appended, the endpoint shared with the
\* previous segment once; for every tour edge without a path exactly the
\* straight segment to the edge's end point is appended; and the point
\* sequence begins and ends at the position of the depot's node.
C23_RouteGeometryComplete ==
    RouteCalled =>
        /\ result.out.raised = "none"
        /\ AssignmentInGraph =>
            LET g     == env.g
                parts == result.out.parts
                route == result.out.route
                depot == NodePos(g, env.nodes[1])
            IN  /\ ~result.out.recovered
                /\ Len(parts) = Len(env.tour) - 1
                /\ route = Flatten(parts)
                /\ route[1] = depot
                /\ route[Len(route)] = depot
                /\ \A i \in 1..(Len(env.tour) - 1) :
                    LET s == env.nodes[env.tour[i] + 1]
                        t == env.nodes[env.tour[i + 1] + 1]
                        whole == IF i = 1 THEN parts[i]
                                 ELSE <<NodePos(g, s)>> \o parts[i]
                    IN  IF t \in JoinedTo(g, s) \/ s = t
                        THEN IsShortestWalk(g, s, t, whole)
                        ELSE whole = <<NodePos(g, s), NodePos(g, t)>>

\* a tour over three junctions, one edge with a two-street path, one
\* without a path
C23_Witness ==
    /\ RouteCalled
    /\ env.nodes = <<11, 13, 14>>
    /\ env.tour = <<0, 1, 2, 0>>
    /\ Len(env.g.edges) = 2
    /\ result.out.parts[1] = <<<<0, 0>>, <<2, 0>>, <<0, 2>>>>
    /\ result.out.parts[2] = <<<<0, 2>>>>
    /\ result.out.parts[3] = <<<<0, 0>>>>

LabelCalled == result.op = "solve_and_label"

\* C29: the label of a planning result names the solver that produced the
\* tour: a tour the nearest-neighbour fallback built is not labelled as a
\* Christofides 1.5-approximation.
C29_LabelNamesProducer ==
    (LabelCalled /\ result.out.by = "_nearest_neighbor_fallback") =>
        result.out.label # "Christofides 1.5-approx"

\* the entry was stored by a call of get_graph_and_nodes and holds the
\* synthetic complete graph over the coordinates of the runs
HoldsSyntheticGraph(entry) ==
    /\ entry.intact
    /\ IsCompleteOver(entry.value.g, entry.value.nodes, Coords)

\* C27: after any sequence of get_graph_and_nodes calls under changing
\* connectivity no cache entry holds a synthetic fallback graph: an entry
\* for the coordinates exists only after a fetch of real data succeeded.
C27_NoSyntheticEntry ==
    \A k \in DOMAIN files :
        k[1] = "get_graph_and_nodes" => ~HoldsSyntheticGraph(files[k])

FileCacheCalled == result.op = "file_cache"

\* C25: a call of distance_matrix made within the TTL of whatever an
\* earlier call stored returns the matrix the uncached builder computes
\* for its own graph and assignment, also when the earlier call had a
\* different graph of the same node and edge counts.
C25_ServedMatrixIsOwn ==
    (FileCacheCalled /\ env.t < CACHE_TIMEOUT) =>
        /\ result.out.raised = "none"
        /\ result.out.value = distance_matrix(env.g, env.nodes).value

ReadDone == result.op = "read"

\* the text is a whole document: every buffer-full of it, in order
IsWholeDocument(text) ==
    /\ text # <<>>
    /\ Len(text) = text[1].of
    /\ \A i \in DOMAIN text : text[i].part = i /\ text[i].doc = text[1].doc

\* C24: a cache write replaces the whole file atomically with respect to
\* readers: a call reading the file of a key while another call saves to it
\* finds the complete previous content or the complete new content, never
\* an empty or partly written file.
C24_ReaderSeesWholeDocument ==
    ReadDone => IsWholeDocument(result.text)

\* a step in which _handle_held_karp_results starts the Christofides Worker
StartsChristofidesTask ==
    /\ tasks["ch_worker"].pc # "start"
    /\ tasks'["ch_worker"].pc = "start"

\* C30: in comparison mode the exact-solver task and the approximate-solver
\* task run on the same coordinate list, whatever the user does (adding or
\* removing delivery points included) while the comparison runs: the
\* Christofides Worker is started with the coordinates the Held-Karp Worker
\* was started with.
C30_ComparisonSameCoordinates ==
    [][StartsChristofidesTask =>
            tasks'["ch_worker"].n = tasks["hk_worker"].n]_vars

====
